---- MODULE Spec2Model ----
(***************************************************************************)
(* Task routing and tiered fallback execution of the Tmux-Orchestrator.    *)
(*                                                                         *)
(* The module models one OpenCodeAgent (src/lib/OpenCodeAgent.js): its     *)
(* model registry, the scorer recommendModelForTask, the error classifier  *)
(* isRateLimitError and the execute / executeWithModel / ensureSession     *)
(* call chain, run by several concurrent callers on the same agent.        *)
(* Texts (task descriptions, error messages) are sequences of one-letter   *)
(* strings, so that toLowerCase and includes are computed, not assumed.    *)
(***************************************************************************)
EXTENDS Integers, Sequences, FiniteSets, TLC

\* Number of callers that may have an execute call running on the agent at
\* the same time, and number of execute calls made in one run.
NumTasks == 2

MaxCalls == 2

\* Number of model selections a caller keeps in results.modelSelections.
MaxSelections == 2

Tasks == 1..NumTasks

----------------------------------------------------------------------------
(* Text primitives                                                         *)

LowerOf ==
  ("A" :> "a") @@ ("B" :> "b") @@ ("C" :> "c") @@ ("D" :> "d") @@
  ("E" :> "e") @@ ("F" :> "f") @@ ("G" :> "g") @@ ("H" :> "h") @@
  ("I" :> "i") @@ ("J" :> "j") @@ ("K" :> "k") @@ ("L" :> "l") @@
  ("M" :> "m") @@ ("N" :> "n") @@ ("O" :> "o") @@ ("P" :> "p") @@
  ("Q" :> "q") @@ ("R" :> "r") @@ ("S" :> "s") @@ ("T" :> "t") @@
  ("U" :> "u") @@ ("V" :> "v") @@ ("W" :> "w") @@ ("X" :> "x") @@
  ("Y" :> "y") @@ ("Z" :> "z")

\* String.prototype.toLowerCase
toLowerCase(text) ==
  [i \in 1..Len(text) |->
     IF text[i] \in DOMAIN LowerOf THEN LowerOf[text[i]] ELSE text[i]]

\* String.prototype.includes
includes(text, needle) ==
  \E i \in 0..(Len(text) - Len(needle)) :
     \A j \in 1..Len(needle) : text[i + j] = needle[j]

----------------------------------------------------------------------------
(* Model registry (config.models) and agent configuration                  *)

\* config.models in key order (the order Object.entries enumerates).
ConfigModels ==
  << [name |-> "claude-sonnet", tier |-> "paid",
      capabilities |-> {"coding", "reasoning", "analysis"}],
     [name |-> "qwen-coder", tier |-> "free",
      capabilities |-> {"coding", "debugging"}],
     [name |-> "phi-3", tier |-> "free",
      capabilities |-> {"fast-responses"}] >>

ModelNames == {ConfigModels[i].name : i \in 1..Len(ConfigModels)}

\* this.config.models[modelName]; NoModelInfo stands for undefined.
NoModelInfo == [name |-> "undefined", tier |-> "", capabilities |-> {}]

ModelInfoOf(modelName) ==
  IF modelName \in ModelNames
    THEN ConfigModels[CHOOSE i \in 1..Len(ConfigModels) :
                         ConfigModels[i].name = modelName]
    ELSE NoModelInfo

\* config.agentConfigs[agentName]: the documented agent configuration, with
\* fallback enabled or disabled.
AgentConfigs ==
  {[primaryModel |-> "claude-sonnet",
    fallbackModels |-> <<"qwen-coder", "phi-3">>,
    allowFallback |-> a] : a \in BOOLEAN}

----------------------------------------------------------------------------
(* Errors and their classification                                         *)

MsgTooManyRequests ==
  << "4", "2", "9", " ", "T", "o", "o", " ", "M", "a", "n", "y", " ", "R",
     "e", "q", "u", "e", "s", "t", "s" >>

MsgServerError ==
  << "I", "n", "t", "e", "r", "n", "a", "l", " ", "s", "e", "r", "v", "e",
     "r", " ", "e", "r", "r", "o", "r" >>

\* Messages of the errors the OpenCode server answers with.
BackendMessages == {MsgTooManyRequests, MsgServerError}

PrefixOpenCode ==
  << "O", "p", "e", "n", "C", "o", "d", "e", " ", "e", "x", "e", "c", "u",
     "t", "i", "o", "n", " ", "f", "a", "i", "l", "e", "d", ":", " " >>

PrefixClaude ==
  << "C", "l", "a", "u", "d", "e", " ", "e", "x", "e", "c", "u", "t", "i",
     "o", "n", " ", "f", "a", "i", "l", "e", "d", ":", " " >>

MsgModelNotFound ==
  << "M", "o", "d", "e", "l", " ", "n", "o", "t", " ", "f", "o", "u", "n",
     "d", " ", "i", "n", " ", "c", "o", "n", "f", "i", "g", "u", "r", "a",
     "t", "i", "o", "n" >>

\* isRateLimitError: case-insensitive search for four marker texts.
isRateLimitError(message) ==
  LET errorMessage == toLowerCase(message) IN
    \/ includes(errorMessage,
                <<"r", "a", "t", "e", " ", "l", "i", "m", "i", "t">>)
    \/ includes(errorMessage, <<"4", "2", "9">>)
    \/ includes(errorMessage,
                <<"t", "o", "o", " ", "m", "a", "n", "y", " ",
                  "r", "e", "q", "u", "e", "s", "t", "s">>)
    \/ includes(errorMessage,
                <<"q", "u", "o", "t", "a", " ",
                  "e", "x", "c", "e", "e", "d", "e", "d">>)

\* A wrapper that reports the failure without its cause.
executeWithOpenCodeErrorNoCause(message) == PrefixOpenCode \o MsgServerError

\* executeWithOpenCode's catch: every error is rewrapped with a prefix.
executeWithOpenCodeError(message) == PrefixOpenCode \o message

\* executeWithClaude's catch: rate-limit errors are rethrown as they are,
\* every other error is rewrapped with a prefix.
executeWithClaudeError(message) ==
  IF isRateLimitError(message) THEN message ELSE PrefixClaude \o message

\* The error executeWithModel throws when session.prompt fails with message.
executeWithModelError(modelName, message) ==
  IF ModelInfoOf(modelName).tier = "free"
    THEN executeWithOpenCodeError(message)
    ELSE executeWithClaudeError(message)

\* Every message executeWithModel can throw, with its classification.
ThrownMessages ==
  BackendMessages \cup {MsgModelNotFound}
    \cup {executeWithModelError(m, message) :
            m \in ModelNames, message \in BackendMessages}

RateLimitClass == [message \in ThrownMessages |-> isRateLimitError(message)]

ThrownBy ==
  [m \in ModelNames, message \in BackendMessages |->
     executeWithModelError(m, message)]

\* Texts a rate-limited or over-quota request is answered with, in the
\* spellings servers use.
MarkedTexts ==
  { << "r", "a", "t", "e", " ", "l", "i", "m", "i", "t" >>,
    << "R", "a", "t", "e", " ", "L", "i", "m", "i", "t" >>,
    << "R", "A", "T", "E", " ", "L", "I", "M", "I", "T", " ", "e", "x", "c",
           "e", "e", "d", "e", "d" >>,
    << "4", "2", "9" >>,
    << "t", "o", "o", " ", "m", "a", "n", "y", " ", "r", "e", "q", "u", "e",
           "s", "t", "s" >>,
    << "T", "o", "o", " ", "M", "a", "n", "y", " ", "R", "e", "q", "u", "e",
           "s", "t", "s" >>,
    << "q", "u", "o", "t", "a", " ", "e", "x", "c", "e", "e", "d", "e", "d" >>,
    << "Q", "u", "o", "t", "a", " ", "E", "x", "c", "e", "e", "d", "e", "d" >> }

\* Texts of other failures, some of them close to the markers.
OtherTexts ==
  { << "r", "a", "t", "e", "-", "l", "i", "m", "i", "t" >>,
    << "r", "a", "t", "e", "l", "i", "m", "i", "t" >>,
    << "4", "2", "8" >>,
    << "t", "o", "o", " ", "m", "a", "n", "y" >>,
    << "q", "u", "o", "t", "a" >>,
    << "t", "i", "m", "e", "o", "u", "t" >>,
    << "I", "n", "t", "e", "r", "n", "a", "l", " ", "s", "e", "r", "v", "e",
           "r", " ", "e", "r", "r", "o", "r" >>,
    << >> }

\* What a message may start with.
MessageHeads ==
  { << >>,
    << "E", "r", "r", "o", "r", ":", " " >>,
    << "H", "T", "T", "P", " " >> }

\* What a message may end with.
MessageTails ==
  { << >>,
    << " ", "f", "o", "r", " ", "m", "o", "d", "e", "l" >>,
    << "!" >> }

\* The error messages the classifier is tried on.
ErrorMessages ==
  {head \o text \o tail :
     head \in MessageHeads, text \in MarkedTexts \cup OtherTexts,
     tail \in MessageTails}

----------------------------------------------------------------------------
(* Scorer                                                                  *)

DescImplement ==
  << "i", "m", "p", "l", "e", "m", "e", "n", "t", " ", "a", " ", "f", "u",
     "n", "c", "t", "i", "o", "n", " ", "t", "o", " ", "a", "d", "d", " ",
     "t", "w", "o", " ", "n", "u", "m", "b", "e", "r", "s" >>

DescDesign ==
  << "d", "e", "s", "i", "g", "n", " ", "t", "h", "e", " ", "o", "v", "e",
     "r", "a", "l", "l", " ", "m", "i", "c", "r", "o", "s", "e", "r", "v",
     "i", "c", "e", "s", " ", "a", "r", "c", "h", "i", "t", "e", "c", "t",
     "u", "r", "e", " ", "f", "o", "r", " ", "p", "a", "y", "m", "e", "n",
     "t", "s" >>

\* Task descriptions the project manager hands to the scorer.
Descriptions == <<DescImplement, DescDesign>>

DescQuickFix ==
  << "q", "u", "i", "c", "k", " ", "f", "i", "x", " ", "f", "o", "r", " ",
     "a", " ", "s", "i", "m", "p", "l", "e", " ", "t", "y", "p", "o" >>

DescComplex ==
  << "r", "e", "f", "a", "c", "t", "o", "r", " ", "t", "h", "e", " ", "c",
     "o", "m", "p", "l", "e", "x", " ", "b", "i", "l", "l", "i", "n", "g",
     " ", "c", "l", "a", "s", "s" >>

DescNotes ==
  << "w", "r", "i", "t", "e", " ", "t", "h", "e", " ", "r", "e", "l", "e",
     "a", "s", "e", " ", "n", "o", "t", "e", "s" >>

DescUpper ==
  << "I", "M", "P", "L", "E", "M", "E", "N", "T", " ", "A", " ", "F", "U",
     "N", "C", "T", "I", "O", "N", " ", "T", "O", " ", "A", "D", "D", " ",
     "T", "W", "O", " ", "N", "U", "M", "B", "E", "R", "S" >>

DescPlan ==
  << "p", "l", "a", "n", " ", "a", "n", "d", " ", "a", "n", "a", "l", "y",
     "z", "e", " ", "t", "h", "e", " ", "c", "o", "d", "e", " ", "o", "f",
     " ", "t", "h", "e", " ", "f", "a", "s", "t", " ", "p", "a", "r", "s",
     "e", "r" >>

DescEmpty ==
<< >>

DescLong ==
  << "t", "i", "d", "y", " ", "t", "h", "e", " ", "n", "o", "t", "e", "s",
     " ", "a", "n", "d", " ", "l", "i", "s", "t", "s", " ", "o", "f", " ",
     "t", "h", "e", " ", "w", "i", "k", "i", " ", "p", "a", "g", "e", "s",
     ";", " ", "t", "i", "d", "y", " ", "t", "h", "e", " ", "n", "o", "t",
     "e", "s", " ", "a", "n", "d", " ", "l", "i", "s", "t", "s", " ", "o",
     "f", " ", "t", "h", "e", " ", "w", "i", "k", "i", " ", "p", "a", "g",
     "e", "s", ";", " ", "t", "i", "d", "y", " ", "t", "h", "e", " ", "n",
     "o", "t", "e", "s", " ", "a", "n", "d", " ", "l", "i", "s", "t", "s",
     " ", "o", "f", " ", "t", "h", "e", " ", "w", "i", "k", "i", " ", "p",
     "a", "g", "e", "s", ";", " ", "t", "i", "d", "y", " ", "t", "h", "e",
     " ", "n", "o", "t", "e", "s", " ", "a", "n", "d", " ", "l", "i", "s",
     "t", "s", " ", "o", "f", " ", "t", "h", "e", " ", "w", "i", "k", "i",
     " ", "p", "a", "g", "e", "s", ";", " ", "t", "i", "d", "y", " ", "t",
     "h", "e", " ", "n", "o", "t", "e", "s", " ", "a", "n", "d", " ", "l",
     "i", "s", "t", "s", " ", "o", "f", " ", "t", "h", "e", " ", "w", "i",
     "k", "i", " ", "p", "a" >>

\* Task descriptions the scorer is tried on.
TaskDescriptions ==
  << DescImplement, DescDesign, DescQuickFix, DescComplex, DescNotes,
     DescUpper, DescPlan, DescEmpty, DescLong >>

\* A registry of one free coding model followed by one paid model for
\* coding and reasoning.
ExampleModels ==
  << [name |-> "M1", tier |-> "free", capabilities |-> {"coding"}],
     [name |-> "M2", tier |-> "paid",
      capabilities |-> {"coding", "reasoning"}] >>

\* A registry of five of the models the README lists.
ReadmeModels ==
  << [name |-> "qwen-coder", tier |-> "free", capabilities |-> {"coding"}],
     [name |-> "mistral-nemo", tier |-> "free",
      capabilities |-> {"reasoning"}],
     [name |-> "phi-3", tier |-> "free",
      capabilities |-> {"fast-responses"}],
     [name |-> "claude-sonnet", tier |-> "paid",
      capabilities |-> {"coding", "reasoning", "analysis"}],
     [name |-> "claude-haiku", tier |-> "paid",
      capabilities |-> {"fast-responses"}] >>

\* Registries (config.models) the scorer is tried on.
Registries == << ConfigModels, ExampleModels, ReadmeModels >>

\* The preferences objects a caller can pass.
PreferenceSets ==
  [preferFree : BOOLEAN, preferPaid : BOOLEAN]

needsReasoning(taskLower) ==
  \/ includes(taskLower, <<"p", "l", "a", "n">>)
  \/ includes(taskLower, <<"a", "r", "c", "h", "i", "t", "e", "c", "t">>)
  \/ includes(taskLower, <<"d", "e", "s", "i", "g", "n">>)
  \/ includes(taskLower, <<"a", "n", "a", "l", "y", "z", "e">>)

needsSpeed(taskLower) ==
  \/ includes(taskLower, <<"q", "u", "i", "c", "k">>)
  \/ includes(taskLower, <<"f", "a", "s", "t">>)
  \/ includes(taskLower, <<"s", "i", "m", "p", "l", "e">>)

needsCoding(taskLower) ==
  \/ includes(taskLower, <<"c", "o", "d", "e">>)
  \/ includes(taskLower, <<"i", "m", "p", "l", "e", "m", "e", "n", "t">>)
  \/ includes(taskLower, <<"f", "u", "n", "c", "t", "i", "o", "n">>)
  \/ includes(taskLower, <<"c", "l", "a", "s", "s">>)

ComplexLength == 200

isComplex(taskDescription) ==
  \/ Len(taskDescription) > ComplexLength
  \/ includes(toLowerCase(taskDescription),
              <<"c", "o", "m", "p", "l", "e", "x">>)

\* Capability matching (lines 287-295).
CapabilityMatch(modelInfo, taskLower) ==
    (IF needsCoding(taskLower) /\ "coding" \in modelInfo.capabilities
       THEN 5 ELSE 0)
  + (IF needsReasoning(taskLower) /\ "reasoning" \in modelInfo.capabilities
       THEN 4 ELSE 0)
  + (IF needsSpeed(taskLower) /\ "fast-responses" \in modelInfo.capabilities
       THEN 3 ELSE 0)

\* Complexity matching (lines 298-302).
ComplexityMatch(modelInfo, taskDescription) ==
  IF isComplex(taskDescription) /\ modelInfo.tier = "paid" THEN 3
  ELSE IF ~isComplex(taskDescription) /\ modelInfo.tier = "free" THEN 2
  ELSE 0

\* Preferences (lines 305-310).
PreferenceBonus(modelInfo, preferences) ==
    (IF preferences.preferFree /\ modelInfo.tier = "free" THEN 5 ELSE 0)
  + (IF preferences.preferPaid /\ modelInfo.tier = "paid" THEN 5 ELSE 0)

\* The score recommendModelForTask gives one registry entry.
ModelScore(modelInfo, taskDescription, preferences) ==
    CapabilityMatch(modelInfo, toLowerCase(taskDescription))
  + ComplexityMatch(modelInfo, taskDescription)
  + PreferenceBonus(modelInfo, preferences)

\* The scoring loop (lines 283-313) over the first k registry entries: the
\* scores in registry order, as the Map scores holds them.
RECURSIVE ScoresOf(_, _, _, _)
ScoresOf(models, k, taskDescription, preferences) ==
  IF k = 0 THEN << >>
  ELSE Append(ScoresOf(models, k - 1, taskDescription, preferences),
              ModelScore(models[k], taskDescription, preferences))

\* A sort that puts the later of two entries with equal scores first.
sortedScoresInReversingTies(models, taskDescription, preferences) ==
  LET n == Len(models)
      score == ScoresOf(models, n, taskDescription, preferences)
      before(i, j) == \/ score[i] > score[j]
                      \/ score[i] = score[j] /\ i > j
      at(p) == CHOOSE i \in 1..n :
                 Cardinality({j \in 1..n : before(j, i)}) = p - 1
  IN [p \in 1..n |-> [model |-> models[at(p)].name,
                      score |-> score[at(p)]]]

\* Array.from(scores.entries()).sort((a, b) => b[1] - a[1]) for the
\* registry models: the Map keeps the registry's order and the sort is
\* stable, so entries with equal scores keep their registry order.
sortedScoresIn(models, taskDescription, preferences) ==
  LET n == Len(models)
      score == ScoresOf(models, n, taskDescription, preferences)
      before(i, j) == \/ score[i] > score[j]
                      \/ score[i] = score[j] /\ i < j
      at(p) == CHOOSE i \in 1..n :
                 Cardinality({j \in 1..n : before(j, i)}) = p - 1
  IN [p \in 1..n |-> [model |-> models[at(p)].name,
                      score |-> score[at(p)]]]

\* sortedScores of the agent whose registry is ConfigModels.
sortedScores(taskDescription, preferences) ==
  sortedScoresIn(ConfigModels, taskDescription, preferences)

SubSeqUpTo(s, first, last) ==
  IF first > Len(s) THEN <<>>
  ELSE SubSeq(s, first, IF last > Len(s) THEN Len(s) ELSE last)

\* recommendModelForTask of an agent whose registry is models.
recommendModelForTaskIn(models, taskDescription, preferences) ==
  LET sorted == sortedScoresIn(models, taskDescription, preferences) IN
    [recommendedModel |-> sorted[1].model,
     score |-> sorted[1].score,
     alternatives |-> SubSeqUpTo(sorted, 2, 4)]

recommendModelForTask(taskDescription, preferences) ==
  LET sorted == sortedScores(taskDescription, preferences) IN
    [recommendedModel |-> sorted[1].model,
     score |-> sorted[1].score,
     alternatives |-> SubSeqUpTo(sorted, 2, 4)]

NoModel == "none"

\* A registry without models: config.models is {}.
EmptyModels == << >>

\* The registries a routed task may meet: none, or the two example models.
RouteRegistries == << EmptyModels, ExampleModels >>

\* One recommendModelForTask call as its caller sees it. With no model in
\* the registry sortedScores is empty, sortedScores[0] is undefined, and
\* the destructuring of line 319 throws a TypeError; otherwise the call
\* returns the recommendation.
recommendModelForTaskCall(models, taskDescription, preferences) ==
  IF Len(models) = 0
    THEN [kind |-> "thrown", error |-> "TypeError",
          recommendedModel |-> NoModel]
    ELSE [kind |-> "returned", error |-> "",
          recommendedModel |->
            recommendModelForTaskIn(models, taskDescription,
                                    preferences).recommendedModel]

\* recommendModelForTaskCall, held as a table.
RouteRecommendations ==
  [r \in 1..Len(RouteRegistries), d \in 1..Len(TaskDescriptions),
   p \in PreferenceSets |->
     recommendModelForTaskCall(RouteRegistries[r], TaskDescriptions[d], p)]
  @@ << >>

\* recommendModelForTaskIn, computed once for every registry, description
\* and preferences object, and held as a table.
Recommendations ==
  [r \in 1..Len(Registries), d \in 1..Len(TaskDescriptions),
   p \in PreferenceSets |->
     recommendModelForTaskIn(Registries[r], TaskDescriptions[d], p)]
  @@ << >>

----------------------------------------------------------------------------
(* Orchestrator: agency definitions and determineAgency                    *)

\* The agency definitions (agency.json) the documentation gives: the
\* keywords of the three agencies and the full WebDevAgency example. A
\* field a definition lacks is empty here, which the scorer skips as it
\* skips an undefined one.
AgencyDefinitions ==
  << [name |-> "BuildingAgency",
      keywords |->
        << << "b", "u", "i", "l", "d" >>, << "c", "o", "d", "e" >>, << "i",
        "m", "p", "l", "e", "m", "e", "n", "t" >>, << "c", "r", "e", "a",
        "t", "e" >>, << "d", "e", "v", "e", "l", "o", "p" >>, << "g", "e",
        "n", "e", "r", "a", "l" >> >>,
      capabilities |->
        << >>,
      purpose |->
        << >>],
     [name |-> "WebDevAgency",
      keywords |->
        << << "w", "e", "b" >>, << "f", "r", "o", "n", "t", "e", "n", "d"
        >>, << "b", "a", "c", "k", "e", "n", "d" >>, << "a", "p", "i" >>, <<
        "u", "i" >>, << "u", "x" >> >>,
      capabilities |->
        << << "f", "r", "o", "n", "t", "e", "n", "d" >>, << "b", "a", "c",
        "k", "e", "n", "d" >>, << "f", "u", "l", "l", "s", "t", "a", "c",
        "k" >>, << "w", "e", "b" >> >>,
      purpose |->
        << "w", "e", "b", " ", "d", "e", "v", "e", "l", "o", "p", "m", "e",
        "n", "t" >>],
     [name |-> "BackendAgency",
      keywords |->
        << << "b", "a", "c", "k", "e", "n", "d" >>, << "a", "p", "i" >>, <<
        "r", "e", "s", "t" >>, << "g", "r", "a", "p", "h", "q", "l" >>, <<
        "a", "u", "t", "h", "e", "n", "t", "i", "c", "a", "t", "i", "o", "n"
        >>, << "d", "a", "t", "a", "b", "a", "s", "e" >>, << "m", "i", "c",
        "r", "o", "s", "e", "r", "v", "i", "c", "e", "s" >> >>,
      capabilities |->
        << >>,
      purpose |->
        << >>] >>

AgencyNames == {AgencyDefinitions[i].name : i \in 1..Len(AgencyDefinitions)}

\* this.agencyConfigs.get(name)
AgencyConfigOf(name) ==
  AgencyDefinitions[CHOOSE i \in 1..Len(AgencyDefinitions) :
                      AgencyDefinitions[i].name = name]

ReqCheckout ==
  << "B", "u", "i", "l", "d", " ", "t", "h", "e", " ", "c", "h", "e", "c",
  "k", "o", "u", "t", " ", "f", "r", "o", "n", "t", "e", "n", "d" >>

ReqApi ==
  << "D", "o", "c", "u", "m", "e", "n", "t", " ", "t", "h", "e", " ", "A",
  "P", "I" >>

ReqWeb ==
  << "W", "E", "B", " ", "D", "E", "V", "E", "L", "O", "P", "M", "E", "N",
  "T", " ", "p", "l", "a", "n" >>

ReqHello ==
  << "S", "a", "y", " ", "h", "e", "l", "l", "o" >>

\* The requests sent to the orchestrator.
RequestTexts == << ReqCheckout, ReqApi, ReqWeb, ReqHello >>

\* How many entries of the list texts occur in requestLower.
MatchCount(texts, requestLower) ==
  Cardinality({i \in 1..Len(texts) :
                 includes(requestLower, toLowerCase(texts[i]))})

\* determineAgency's score of one agency config (lines 120-143).
AgencyScore(config, request) ==
  LET requestLower == toLowerCase(request) IN
    2 * MatchCount(config.keywords, requestLower)
    + 3 * MatchCount(config.capabilities, requestLower)
    + (IF /\ config.purpose # << >>
          /\ includes(requestLower, toLowerCase(config.purpose))
         THEN 5 ELSE 0)

\* AgencyScore of every agency for every request, held as a table.
AgencyScores ==
  [name \in AgencyNames, q \in 1..Len(RequestTexts) |->
     AgencyScore(AgencyConfigOf(name), RequestTexts[q])] @@ << >>

NoAgency == "undefined"

\* A determineAgency that prefers the later of two agencies with the same
\* score.
determineAgencyLastOfTies(configs, managers, q) ==
  LET scored == {i \in 1..Len(configs) : AgencyScores[configs[i], q] > 0}
      before(i, j) == \/ AgencyScores[configs[i], q] > AgencyScores[configs[j], q]
                      \/ /\ AgencyScores[configs[i], q] = AgencyScores[configs[j], q]
                         /\ i > j
  IN IF scored # {}
       THEN configs[CHOOSE i \in scored :
                       \A j \in scored \ {i} : before(i, j)]
       ELSE IF \E i \in 1..Len(managers) : managers[i] = "BuildingAgency"
         THEN "BuildingAgency"
         ELSE IF Len(managers) > 0 THEN managers[1] ELSE NoAgency

\* determineAgency(request) (lines 113-169) for the config names in the
\* order of this.agencyConfigs and the project managers in the order of
\* this.agencies: the agencies that score above zero are sorted by score,
\* descending and stable, and the first one is returned; with none, the
\* answer is BuildingAgency if it is registered, else the first registered
\* agency, else undefined.
determineAgency(configs, managers, q) ==
  LET scored == {i \in 1..Len(configs) : AgencyScores[configs[i], q] > 0}
      before(i, j) == \/ AgencyScores[configs[i], q] > AgencyScores[configs[j], q]
                      \/ /\ AgencyScores[configs[i], q] = AgencyScores[configs[j], q]
                         /\ i < j
  IN IF scored # {}
       THEN configs[CHOOSE i \in scored :
                       \A j \in scored \ {i} : before(i, j)]
       ELSE IF \E i \in 1..Len(managers) : managers[i] = "BuildingAgency"
         THEN "BuildingAgency"
         ELSE IF Len(managers) > 0 THEN managers[1] ELSE NoAgency

----------------------------------------------------------------------------
(* State                                                                   *)

VARIABLES
  agentConfig,       \* config.agentConfigs[agentName]
  backendUp,         \* whether the OpenCode server still answers requests
  currentModel,      \* this.currentModel
  sessionId,         \* this.sessionId
  sessionsCreated,   \* number of sessions the server has created
  calls,             \* number of execute calls made so far
  executionHistory,  \* this.executionHistory
  fallbackCount,     \* this.fallbackCount
  pc,                \* where each execute call stands
  options,           \* options.model of each call
  ranking,           \* the scorer's ranking the caller computed for the task
  modelToUse,        \* execute's local modelToUse
  execution,         \* execute's local execution record
  error,             \* the error bound by execute's outer catch
  fbIndex,           \* position in agentConfig.fallbackModels (0: first try)
  outcome,           \* what execute returned or threw to its caller
  inflight,          \* requests sent to the server and not yet answered
  invoked,           \* per call, the executeWithModel calls and their ends
  FALLBACK_ENABLED,  \* the environment variable of that name
  modelSelections,   \* the recommendModelForTask calls made and their results
  classified,        \* the last error classified, raw and wrapped
  switchErrors,      \* the errors switchModel has thrown to its callers
  agencies,          \* the keys of orchestrator.agencies, in Map order
  agencyConfigs,     \* the keys of orchestrator.agencyConfigs, in Map order
  initialized,       \* orchestrator.initialized
  discovery,         \* where the running initialize call stands
  routingHistory,    \* orchestrator.routingHistory
  received,           \* where each receiveRequest call stands
  stats,             \* what the last getStats call returned
  managed,           \* where the project manager's receivePrompt call stands
  overlapping,       \* the initialize calls started while another one runs
  constructed,       \* per agency, the ProjectManager instances constructed
  isActive,          \* chatAgent.isActive
  conversationHistory, \* chatAgent.conversationHistory
  inputs,            \* where each receiveInput call stands
  state,             \* voiceModule.state
  speakingEnded,     \* the texts of the once('speakingEnded') listeners
  recognition,       \* the browser's recognition session of the adapter
  currentUtterance,  \* the utterance the synthesizer is speaking
  cancelled,         \* cancelled utterances whose last event is to come
  handed,            \* the adapter.speak calls made, in order
  requested,         \* the texts speak() has been called with
  history,           \* voiceHistory.history
  imported,          \* what the last import call was given and returned
  mcpProc,           \* the MCP child process, if it runs
  mcpPending,        \* the ids of the entries of mcpPending
  mcpIdCounter,      \* mcpIdCounter
  mcpRequests,       \* the promise and the timer of each sendMcpRequest call
  mcpStdout          \* the lines the children wrote that are not read yet

\* The chat agent's fields and calls.
chatVars == << isActive, conversationHistory, inputs >>

\* The voice module's fields, its adapter and the browser behind it.
voiceVars ==
  << state, speakingEnded, recognition, currentUtterance, cancelled, handed,
     requested >>

\* The voice history's fields and calls.
historyVars == << history, imported >>

\* The dashboard server's MCP child and the requests sent to it.
mcpVars == << mcpProc, mcpPending, mcpIdCounter, mcpRequests, mcpStdout >>

\* The chat agent, the voice module, the voice history and the dashboard.
periphery == << chatVars, voiceVars, historyVars, mcpVars >>

\* What execute and the calls below it neither read nor write.
\* The orchestrator's fields and the calls made on it.
orchestratorVars ==
  << agencies, agencyConfigs, initialized, discovery, routingHistory,
     received, stats, overlapping, constructed >>

outside ==
  << FALLBACK_ENABLED, modelSelections, classified, switchErrors,
     orchestratorVars, managed, periphery >>

\* The agent's fields, execute's locals and the server's requests.
agentVars ==
  << agentConfig, backendUp, currentModel, sessionId,
     sessionsCreated, calls, executionHistory, fallbackCount, pc, options, ranking,
     modelToUse, execution, error, fbIndex, outcome, inflight, invoked >>

vars == << agentVars, outside >>

\* No error classified yet.
NoClassified ==
  [message |-> << >>, tier |-> "", thrown |-> << >>,
   rateLimit |-> FALSE, thrownRateLimit |-> FALSE]

\* The model ids a caller passes as options.model or to switchModel: the
\* registry's names and one name the registry does not hold.
UnknownModel == "gpt-4"

RequestedModels == ModelNames \cup {UnknownModel}

NoSession == 0
\* A JavaScript Error as the server client or executeWithModel creates it:
\* a message and nothing else.
ErrorOf(message) == [message |-> message]

NoError == ErrorOf(<< >>)
NoResult == [model |-> NoModel, attempt |-> 0]

\* The execution object execute builds before the first try.
NewExecution(model, taskOptimized) ==
  [model |-> model, success |-> FALSE, fallbackUsed |-> FALSE,
   attempts |-> << >>, taskOptimized |-> taskOptimized,
   fallbackModel |-> NoModel, result |-> NoResult, error |-> << >>]

NoOutcome == [kind |-> "none", result |-> NoResult, error |-> NoError]

\* Bound on the receiveRequest calls made on the orchestrator.
NumRequests == 2

Requests == 1..NumRequests

\* A receiveRequest call not made yet.
NoRequest ==
  [pc |-> "idle", q |-> 0, target |-> NoAgency, routing |-> 0,
   outcome |-> "none", error |-> ""]

\* No getStats call made yet.
NoStats ==
  [totalAgencies |-> 0, totalRoutings |-> 0, successfulRoutings |-> 0,
   failedRoutings |-> 0, lastRouting |-> "none"]

\* An initialize call that was not made.
NoRun == [pc |-> "idle", k |-> 0]

\* The orchestrator after its constructor (lines 10-15).
OrchestratorInit ==
  /\ agencies = << >>
  /\ agencyConfigs = << >>
  /\ initialized = FALSE
  /\ discovery = [pc |-> "idle", k |-> 0, caller |-> 0, failed |-> {}]
  /\ routingHistory = << >>
  /\ received = [r \in Requests |-> NoRequest]
  /\ stats = NoStats
  /\ overlapping = [r \in Requests |-> NoRun]
  /\ constructed = [name \in AgencyNames |-> 0]

\* A project manager on which receivePrompt is not running: no step of it
\* has failed, nothing was returned or thrown.
NoPrompt ==
  [pc |-> "idle", prompts |-> "", keys |-> {}, code |-> FALSE,
   steps |-> << >>, failures |-> << >>, validation |-> "",
   finalStatus |-> "pending", approval |-> "", error |-> << >>]

\* The receiveInput calls the chat agent is given.
NumInputs == 2

Inputs == 1..NumInputs

\* A receiveInput call not made yet.
NoInput == [pc |-> "idle", outcome |-> "none"]

\* The chat agent after its constructor (chatAgent/index.js, lines 6-10).
ChatInit ==
  /\ isActive = FALSE
  /\ conversationHistory = << >>
  /\ inputs = [c \in Inputs |-> NoInput]

\* The texts speak() is called with, each of them once.
NumUtterances == 3

Utterances == 1..NumUtterances

\* No utterance: adapter.currentUtterance is null.
NoUtterance == 0

\* The voice module after its constructor (VoiceModule.js, lines 14-45),
\* no recognition running and nothing being spoken.
VoiceInit ==
  /\ state = "idle"
  /\ speakingEnded = << >>
  /\ recognition = "off"
  /\ currentUtterance = NoUtterance
  /\ cancelled = {}
  /\ handed = << >>
  /\ requested = {}

\* this.maxSize (VoiceHistory.js, line 12), scaled down from 500.
MaxSize == 2

\* The ids that entries have.
NumIds == 3

EntryIds == 1..NumIds

\* The import calls made.
MaxImports == 2

\* No import call made yet: the entries given to the last import call, the
\* history before and after it, and the number it returned.
NoImport ==
  [calls |-> 0, entries |-> << >>, before |-> << >>, after |-> << >>,
   returned |-> 0]

\* The voice history after its constructor with nothing stored
\* (VoiceHistory.js, lines 11-25).
VoiceHistoryInit ==
  /\ history = << >>
  /\ imported = NoImport

\* The sendMcpRequest calls made over the child-process path.
NumMcpCalls == 2

McpCalls == 1..NumMcpCalls

\* No child process: mcpProc is null.
NoProc == "null"

\* The child process that spawn returned.
ChildProc == "python3"

\* A sendMcpRequest call not made yet.
NoMcpRequest == [pc |-> "idle", id |-> 0, settled |-> << >>, timer |-> FALSE]

\* The dashboard server when its module is loaded (server.js, lines 20-23).
McpInit ==
  /\ mcpProc = NoProc
  /\ mcpPending = {}
  /\ mcpIdCounter = 1
  /\ mcpRequests = [c \in McpCalls |-> NoMcpRequest]
  /\ mcpStdout = {}

PeripheryInit == ChatInit /\ VoiceInit /\ VoiceHistoryInit /\ McpInit

\* The agent after its constructor and initialize.
AgentInit ==
  /\ agentConfig \in AgentConfigs
  /\ backendUp = TRUE
  /\ currentModel = agentConfig.primaryModel
  /\ sessionId = NoSession
  /\ sessionsCreated = 0
  /\ calls = 0
  /\ executionHistory = << >>
  /\ fallbackCount = 0
  /\ pc = [t \in Tasks |-> "idle"]
  /\ options = [t \in Tasks |-> NoModel]
  /\ ranking = [t \in Tasks |-> << >>]
  /\ modelToUse = [t \in Tasks |-> NoModel]
  /\ execution = [t \in Tasks |-> NewExecution(NoModel, FALSE)]
  /\ error = [t \in Tasks |-> NoError]
  /\ fbIndex = [t \in Tasks |-> 0]
  /\ outcome = [t \in Tasks |-> NoOutcome]
  /\ inflight = {}
  /\ invoked = [t \in Tasks |-> << >>]

\* The agent in the documented default environment.
Init ==
  /\ AgentInit
  /\ FALLBACK_ENABLED = "true"
  /\ modelSelections = << >>
  /\ classified = NoClassified
  /\ switchErrors = {}
  /\ OrchestratorInit
  /\ managed = NoPrompt
  /\ PeripheryInit

\* The agent in an environment that enables or disables fallback.
EnvInit ==
  /\ AgentInit
  /\ FALLBACK_ENABLED \in {"true", "false"}
  /\ modelSelections = << >>
  /\ classified = NoClassified
  /\ switchErrors = {}
  /\ OrchestratorInit
  /\ managed = NoPrompt
  /\ PeripheryInit

----------------------------------------------------------------------------
(* execute, executeWithModel, ensureSession                                *)

\* A fallback loop that tries its first model again and again.
AttemptModelStuck(t) ==
  IF fbIndex[t] = 0 THEN modelToUse[t]
  ELSE agentConfig.fallbackModels[1]

\* The model the current try of call t was started with.
AttemptModel(t) ==
  IF fbIndex[t] = 0 THEN modelToUse[t]
  ELSE agentConfig.fallbackModels[fbIndex[t]]

\* body.model of the session.prompt request of the current try: the body is
\* { parts, model: modelInfo.model, ...options }, so a model passed in
\* options replaces the model of the registry entry (named by its key here).
BodyModel(t) ==
  IF options[t] # NoModel THEN options[t] ELSE AttemptModel(t)

CreateCall(t) == [task |-> t, call |-> "session.create", attempt |-> fbIndex[t]]

PromptCall(t) == [task |-> t, call |-> "session.prompt", attempt |-> fbIndex[t]]

\* The preferences routeTasks passes to the scorer: preferFree is true only
\* if the environment sets PREFER_FREE_MODELS to 'true', which it does not
\* by default; preferPaid is never passed.
RoutePreferences == [preferFree |-> FALSE, preferPaid |-> FALSE]

\* The ranking behind the model routeTasks selects for task description d:
\* recommendedModel followed by the alternatives.
RouteRanking(d) ==
  LET rec == recommendModelForTask(Descriptions[d], RoutePreferences)
  IN <<rec.recommendedModel>>
       \o [p \in 1..Len(rec.alternatives) |-> rec.alternatives[p].model]

\* RouteRanking, computed once for every description.
RouteRankings == [d \in 1..Len(Descriptions) |-> RouteRanking(d)]

\* executeWithModel(modelName, ...) up to its first suspension: ensureSession
\* returns the session held, or sends session.create and waits for it.
\* n is the position of the try (0: first try, k: fallback k).
CallExecuteWithModel(t, modelName, n, log) ==
  /\ invoked' = [invoked EXCEPT ![t] =
                   Append(log, [model |-> modelName, sent |-> FALSE,
                                requested |-> NoModel,
                                status |-> "pending", error |-> << >>])]
  /\ IF sessionId = NoSession
       THEN /\ pc' = [pc EXCEPT ![t] = "creating"]
            /\ inflight' = inflight \cup
                 {[task |-> t, call |-> "session.create", attempt |-> n]}
       ELSE /\ pc' = [pc EXCEPT ![t] = "session"]
            /\ inflight' = inflight

\* execute(prompt, options) up to the first suspension of its first try.
\* A caller either passes no model (project manager prompts) or the model
\* the scorer recommends for the task description (routeTasks).
ExecuteWith(t, model, rank) ==
  LET m == IF model # NoModel THEN model ELSE currentModel IN
    /\ pc[t] \in {"idle", "done", "failed"}
    /\ calls < MaxCalls
    /\ calls' = calls + 1
    /\ options' = [options EXCEPT ![t] = model]
    /\ ranking' = [ranking EXCEPT ![t] = rank]
    /\ modelToUse' = [modelToUse EXCEPT ![t] = m]
    /\ execution' = [execution EXCEPT ![t] = NewExecution(m, model # NoModel)]
    /\ error' = [error EXCEPT ![t] = NoError]
    /\ fbIndex' = [fbIndex EXCEPT ![t] = 0]
    /\ outcome' = [outcome EXCEPT ![t] = NoOutcome]
    /\ CallExecuteWithModel(t, m, 0, << >>)
    /\ UNCHANGED << outside, agentConfig, backendUp, currentModel,
                    sessionId, sessionsCreated, executionHistory,
                    fallbackCount >>

\* this.agent.execute(prompt): a project manager's planning, prompt
\* creation, iteration and approval prompts pass no options.
ExecutePrompt(t) == ExecuteWith(t, NoModel, << >>)

\* routeTasks: the scorer's recommendation for the task description is
\* passed down as options.model.
ExecuteTask(t) ==
  \E d \in 1..Len(Descriptions) :
     ExecuteWith(t, RouteRankings[d][1], RouteRankings[d])

\* execute(prompt, { model }) with a model id the caller chose itself.
ExecuteOverride(t) ==
  \E model \in RequestedModels : ExecuteWith(t, model, << >>)

\* The log entry of the running try of call t, closed with its end.
CloseInvoked(t, status, message) ==
  [invoked EXCEPT ![t][Len(invoked[t])] =
     [@ EXCEPT !.status = status, !.error = message]]

\* An outer catch that does not look at allowFallback.
FirstAttemptFailedNoFlag(t, message) ==
  LET failed == [model |-> currentModel, error |-> message]
      fallback == /\ RateLimitClass[message]
                  /\ Len(agentConfig.fallbackModels) > 0
  IN /\ error' = [error EXCEPT ![t] = ErrorOf(message)]
     /\ IF fallback
          THEN /\ execution' = [execution EXCEPT
                                  ![t].attempts = Append(@, failed)]
               /\ fbIndex' = [fbIndex EXCEPT ![t] = 1]
               /\ pc' = [pc EXCEPT ![t] = "fallback"]
               /\ outcome' = outcome
          ELSE /\ execution' = [execution EXCEPT
                                  ![t].attempts = Append(@, failed),
                                  ![t].error = message]
               /\ fbIndex' = fbIndex
               /\ pc' = [pc EXCEPT ![t] = "failed"]
               /\ outcome' = [outcome EXCEPT ![t] =
                                [kind |-> "thrown", result |-> NoResult,
                                 error |-> ErrorOf(message)]]
     /\ UNCHANGED << executionHistory, fallbackCount >>

\* execute's outer catch (lines 116-157) for an error of the first try,
\* up to the fallback loop or to the throw.
FirstAttemptFailed(t, message) ==
  LET failed == [model |-> currentModel, error |-> message]
      fallback == /\ agentConfig.allowFallback
                  /\ RateLimitClass[message]
                  /\ Len(agentConfig.fallbackModels) > 0
  IN /\ error' = [error EXCEPT ![t] = ErrorOf(message)]
     /\ IF fallback
          THEN /\ execution' = [execution EXCEPT
                                  ![t].attempts = Append(@, failed)]
               /\ fbIndex' = [fbIndex EXCEPT ![t] = 1]
               /\ pc' = [pc EXCEPT ![t] = "fallback"]
               /\ outcome' = outcome
          ELSE /\ execution' = [execution EXCEPT
                                  ![t].attempts = Append(@, failed),
                                  ![t].error = message]
               /\ fbIndex' = fbIndex
               /\ pc' = [pc EXCEPT ![t] = "failed"]
               /\ outcome' = [outcome EXCEPT ![t] =
                                [kind |-> "thrown", result |-> NoResult,
                                 error |-> ErrorOf(message)]]
     /\ UNCHANGED << executionHistory, fallbackCount >>

\* A fallback loop that gives up at the first fallback model that fails.
FallbackAttemptFailedBreak(t, message) ==
  LET k == fbIndex[t]
      failed == [model |-> agentConfig.fallbackModels[k], error |-> message]
  IN /\ error' = error
     /\ execution' = [execution EXCEPT ![t].attempts = Append(@, failed),
                                       ![t].error = error[t].message]
     /\ fbIndex' = fbIndex
     /\ pc' = [pc EXCEPT ![t] = "failed"]
     /\ outcome' = [outcome EXCEPT ![t] =
                      [kind |-> "thrown", result |-> NoResult,
                       error |-> error[t]]]
     /\ UNCHANGED << executionHistory, fallbackCount >>

\* The fallback loop's catch (lines 143-150) and the loop's next step: the
\* failure is recorded and the loop goes on, whatever the error is; after
\* the last fallback model the first try's error is thrown (lines 154-157).
FallbackAttemptFailed(t, message) ==
  LET k == fbIndex[t]
      failed == [model |-> agentConfig.fallbackModels[k], error |-> message]
  IN /\ error' = error
     /\ IF k < Len(agentConfig.fallbackModels)
          THEN /\ execution' = [execution EXCEPT
                                  ![t].attempts = Append(@, failed)]
               /\ fbIndex' = [fbIndex EXCEPT ![t] = k + 1]
               /\ pc' = [pc EXCEPT ![t] = "fallback"]
               /\ outcome' = outcome
          ELSE /\ execution' = [execution EXCEPT
                                  ![t].attempts = Append(@, failed),
                                  ![t].error = error[t].message]
               /\ fbIndex' = fbIndex
               /\ pc' = [pc EXCEPT ![t] = "failed"]
               /\ outcome' = [outcome EXCEPT ![t] =
                                [kind |-> "thrown", result |-> NoResult,
                                 error |-> error[t]]]
     /\ UNCHANGED << executionHistory, fallbackCount >>

\* executeWithModel threw message in the running try of call t.
AttemptFailed(t, message) ==
  /\ invoked' = CloseInvoked(t, "failed", message)
  /\ IF fbIndex[t] = 0
       THEN FirstAttemptFailed(t, message)
       ELSE FallbackAttemptFailed(t, message)

\* executeWithModel returned result in the running try of call t: lines
\* 112-114 for the first try, 133-141 for a fallback, then 161-163.
AttemptSucceeded(t, result) ==
  LET done == IF fbIndex[t] = 0
                THEN [execution[t] EXCEPT !.success = TRUE,
                                          !.result = result]
                ELSE [execution[t] EXCEPT
                        !.success = TRUE, !.fallbackUsed = TRUE,
                        !.fallbackModel = agentConfig.fallbackModels[fbIndex[t]],
                        !.result = result]
  IN /\ invoked' = CloseInvoked(t, "success", << >>)
     /\ execution' = [execution EXCEPT ![t] = done]
     /\ fallbackCount' = IF fbIndex[t] = 0 THEN fallbackCount
                         ELSE fallbackCount + 1
     /\ executionHistory' = Append(executionHistory, done)
     /\ outcome' = [outcome EXCEPT ![t] =
                      [kind |-> "returned", result |-> result,
                       error |-> NoError]]
     /\ pc' = [pc EXCEPT ![t] = "done"]
     /\ UNCHANGED << error, fbIndex >>

\* session.create answered: ensureSession stores the id and returns.
SessionCreated(t) ==
  /\ pc[t] = "creating"
  /\ backendUp
  /\ CreateCall(t) \in inflight
  /\ inflight' = inflight \ {CreateCall(t)}
  /\ sessionsCreated' = sessionsCreated + 1
  /\ sessionId' = sessionsCreated + 1
  /\ pc' = [pc EXCEPT ![t] = "session"]
  /\ UNCHANGED << outside, agentConfig, backendUp, currentModel, calls,
                  executionHistory, fallbackCount, options, ranking,
                  modelToUse, execution, error, fbIndex, outcome, invoked >>

\* session.create failed: ensureSession rethrows the server's error, which
\* leaves executeWithModel unwrapped.
SessionCreateFailed(t) ==
  /\ pc[t] = "creating"
  /\ backendUp
  /\ CreateCall(t) \in inflight
  /\ inflight' = inflight \ {CreateCall(t)}
  /\ \E message \in BackendMessages : AttemptFailed(t, message)
  /\ UNCHANGED << outside, agentConfig, backendUp, currentModel,
                  sessionId, sessionsCreated, calls, options, ranking,
                  modelToUse >>

\* executeWithModel after ensureSession: the registry lookup, then
\* session.prompt is sent by executeWithOpenCode or executeWithClaude.
SendPrompt(t) ==
  /\ pc[t] = "session"
  /\ IF AttemptModel(t) \in ModelNames
       THEN /\ pc' = [pc EXCEPT ![t] = "prompting"]
            /\ inflight' = inflight \cup {PromptCall(t)}
            /\ invoked' = [invoked EXCEPT
                             ![t][Len(invoked[t])].sent = TRUE,
                             ![t][Len(invoked[t])].requested = BodyModel(t)]
            /\ UNCHANGED << executionHistory, fallbackCount, execution,
                            error, fbIndex, outcome >>
       ELSE /\ inflight' = inflight
            /\ AttemptFailed(t, MsgModelNotFound)
  /\ UNCHANGED << outside, agentConfig, backendUp, currentModel,
                  sessionId, sessionsCreated, calls, options, ranking,
                  modelToUse >>

\* session.prompt answered with a text: parseResponse, then execute goes on.
PromptSucceeded(t) ==
  /\ pc[t] = "prompting"
  /\ backendUp
  /\ PromptCall(t) \in inflight
  /\ inflight' = inflight \ {PromptCall(t)}
  /\ AttemptSucceeded(t, [model |-> AttemptModel(t), attempt |-> fbIndex[t]])
  /\ UNCHANGED << outside, agentConfig, backendUp, currentModel,
                  sessionId, sessionsCreated, calls, options, ranking,
                  modelToUse >>

\* session.prompt failed: the provider wrapper rethrows or rewraps the error.
PromptFailed(t) ==
  /\ pc[t] = "prompting"
  /\ backendUp
  /\ PromptCall(t) \in inflight
  /\ inflight' = inflight \ {PromptCall(t)}
  /\ \E message \in BackendMessages :
        AttemptFailed(t, ThrownBy[AttemptModel(t), message])
  /\ UNCHANGED << outside, agentConfig, backendUp, currentModel,
                  sessionId, sessionsCreated, calls, options, ranking,
                  modelToUse >>

\* A fallback loop that starts the next model without awaiting the try
\* that is still running.
TryFallbackNoAwait(t) ==
  LET n == IF pc[t] = "fallback" THEN fbIndex[t] ELSE fbIndex[t] + 1 IN
    /\ pc[t] \in {"fallback", "prompting"}
    /\ n <= Len(agentConfig.fallbackModels)
    /\ fbIndex' = [fbIndex EXCEPT ![t] = n]
    /\ CallExecuteWithModel(t, agentConfig.fallbackModels[n], n, invoked[t])
    /\ UNCHANGED << outside, agentConfig, backendUp, currentModel, sessionId,
                    sessionsCreated, calls, executionHistory, fallbackCount,
                    options, ranking, modelToUse, execution, error, outcome >>

\* One step of the fallback loop (lines 127-131): the next fallback model
\* is tried once the try before it has ended.
TryFallback(t) ==
  /\ pc[t] = "fallback"
  /\ CallExecuteWithModel(t, AttemptModel(t), fbIndex[t], invoked[t])
  /\ UNCHANGED << outside, agentConfig, backendUp, currentModel,
                  sessionId, sessionsCreated, calls, executionHistory,
                  fallbackCount, options, ranking, modelToUse, execution,
                  error, fbIndex, outcome >>

\* A switchModel that does not look the model up in the registry.
switchModelUnchecked(modelName) ==
  /\ \A t \in Tasks : pc[t] \in {"idle", "done", "failed"}
  /\ currentModel' = modelName
  /\ UNCHANGED << outside, agentConfig, backendUp, sessionId,
                  sessionsCreated, calls, executionHistory, fallbackCount, pc,
                  options, ranking, modelToUse, execution, error, fbIndex,
                  outcome, inflight, invoked >>

\* switchModel(modelName), called by the caller between its execute calls:
\* a name the registry does not hold throws and leaves the agent as it is.
switchModel(modelName) ==
  /\ \A t \in Tasks : pc[t] \in {"idle", "done", "failed"}
  /\ IF modelName \in ModelNames
       THEN /\ currentModel' = modelName
            /\ switchErrors' = switchErrors
       ELSE /\ currentModel' = currentModel
            /\ switchErrors' = switchErrors \cup
                 {[model |-> modelName, message |-> MsgModelNotFound]}
  /\ UNCHANGED << FALLBACK_ENABLED, modelSelections, classified,
                  orchestratorVars, managed, periphery, agentConfig, backendUp,
                  sessionId,
                  sessionsCreated, calls, executionHistory, fallbackCount, pc,
                  options, ranking, modelToUse, execution, error, fbIndex,
                  outcome, inflight, invoked >>

\* The OpenCode server stops answering: requests in flight stay unanswered.
BackendStops ==
  /\ backendUp
  /\ inflight # {}
  /\ backendUp' = FALSE
  /\ UNCHANGED << outside, agentConfig, currentModel, sessionId,
                  sessionsCreated, calls, executionHistory, fallbackCount, pc,
                  options, ranking, modelToUse, execution, error, fbIndex,
                  outcome, inflight, invoked >>

\* session.prompt for modelName fails with message; the provider wrapper of
\* executeWithModel throws its error, and execute's catch classifies it
\* (line 124). The raw error's class is recorded beside it.
Classify(modelName, message) ==
  LET thrown == executeWithModelError(modelName, message) IN
    /\ classified' =
         [message |-> message, tier |-> ModelInfoOf(modelName).tier,
          thrown |-> thrown, rateLimit |-> isRateLimitError(message),
          thrownRateLimit |-> isRateLimitError(thrown)]
    /\ UNCHANGED << agentVars, FALLBACK_ENABLED, modelSelections, switchErrors,
                    orchestratorVars, managed, periphery >>

\* What a caller knows of one recommendModelForTask call: what it passed,
\* what it got, and the agent's current model at the time.
SelectionOf(r, d, p, modelRec) ==
  [models |-> Registries[r], taskDescription |-> TaskDescriptions[d],
   preferences |-> p, modelRec |-> modelRec,
   currentModel |-> currentModel]

\* recommendModelForTask(taskDescription, preferences) on an agent whose
\* registry is Registries[r]; the caller keeps the answer.
Score(r, d, p) ==
  /\ modelSelections' = << SelectionOf(r, d, p, Recommendations[r, d, p]) >>
  /\ UNCHANGED << agentVars, FALLBACK_ENABLED, classified, switchErrors,
                  orchestratorVars, managed, periphery >>

\* A routeTasks that selects the agent's current model.
RecommendCurrent(d, p) ==
  /\ Len(modelSelections) < MaxSelections
  /\ modelSelections' =
       Append(modelSelections,
              SelectionOf(1, d, p, [Recommendations[1, d, p] EXCEPT
                                      !.recommendedModel = currentModel]))
  /\ UNCHANGED << agentVars, FALLBACK_ENABLED, classified, switchErrors,
                  orchestratorVars, managed, periphery >>

\* routeTasks' model selection for a task description (lines 163-175 and
\* 209-222): recommendModelForTask on the agent, whose registry is
\* ConfigModels = Registries[1], and a push to results.modelSelections.
Recommend(d, p) ==
  /\ Len(modelSelections) < MaxSelections
  /\ modelSelections' =
       Append(modelSelections,
              SelectionOf(1, d, p, Recommendations[1, d, p]))
  /\ UNCHANGED << agentVars, FALLBACK_ENABLED, classified, switchErrors,
                  orchestratorVars, managed, periphery >>

\* routeTasks' first step on a code agent whose registry is
\* RouteRegistries[r] (lines 157-190 and 259-264): the selection, then the
\* delegation to the code agent unless the selection threw, in which case
\* routeTasks' catch rethrows the error to receivePrompt's caller.
RouteSelect(r, d, p) ==
  LET modelRec == RouteRecommendations[r, d, p] IN
    /\ Len(modelSelections) < MaxSelections
    /\ modelSelections' =
         Append(modelSelections,
                [models |-> RouteRegistries[r],
                 taskDescription |-> TaskDescriptions[d],
                 preferences |-> p, modelRec |-> modelRec,
                 delegated |-> modelRec.kind = "returned",
                 thrown |-> modelRec.error])
    /\ UNCHANGED << agentVars, FALLBACK_ENABLED, classified, switchErrors,
                  orchestratorVars, managed, periphery >>

\* reset(), called by the caller between its execute calls.
reset ==
  /\ \A t \in Tasks : pc[t] \in {"idle", "done", "failed"}
  /\ sessionId' = NoSession
  /\ executionHistory' = << >>
  /\ fallbackCount' = 0
  /\ UNCHANGED << outside, agentConfig, backendUp, currentModel,
                  sessionsCreated, calls, pc, options, ranking, modelToUse,
                  execution, error, fbIndex, outcome, inflight, invoked >>

----------------------------------------------------------------------------
(* Orchestrator: initialize, registerAgency, receiveRequest, getStats      *)

\* What the orchestrator neither reads nor writes.
agentSide ==
  << agentVars, FALLBACK_ENABLED, modelSelections, classified, switchErrors,
     managed, periphery >>

\* The directories fs.readdir finds under Agencies, in the order it
\* returns them.
AgencyDirs == << "BuildingAgency", "WebDevAgency", "BackendAgency" >>

\* Map.prototype.has and Map.prototype.set on the keys of a Map: a key
\* that is set again keeps its place.
MapHas(keys, key) == \E i \in 1..Len(keys) : keys[i] = key

MapSet(keys, key) == IF MapHas(keys, key) THEN keys ELSE Append(keys, key)

\* The end of initialize (line 27) after a readdir that failed; a
\* receiveRequest call that awaited initialize goes on.
InitializeReturns ==
  /\ discovery' = [discovery EXCEPT !.pc = "idle", !.k = 0, !.caller = 0]
  /\ initialized' = TRUE
  /\ received' = IF discovery.caller = 0 THEN received
                ELSE [received EXCEPT ![discovery.caller].pc = "resumed"]

\* loadAgency has returned for the directory entry at hand, failed being
\* the entries whose load has failed so far (which the code only logs):
\* the loop of discoverAgencies goes to the next entry, or initialize ends
\* (line 27) and a receiveRequest call that awaited it goes on.
LoadAgencyReturns(failed) ==
  IF discovery.k < Len(AgencyDirs)
    THEN /\ discovery' = [discovery EXCEPT !.pc = "config", !.k = @ + 1,
                                           !.failed = failed]
         /\ UNCHANGED << initialized, received >>
    ELSE /\ discovery' = [discovery EXCEPT !.pc = "idle", !.k = 0,
                                           !.caller = 0, !.failed = failed]
         /\ initialized' = TRUE
         /\ received' = IF discovery.caller = 0 THEN received
                       ELSE [received EXCEPT
                               ![discovery.caller].pc = "resumed"]

\* initialize() up to the readdir of discoverAgencies, for a caller that is
\* receiveRequest call number caller, or 0 for a direct call.
StartInitialize(caller) ==
  discovery' = [discovery EXCEPT !.pc = "readdir", !.caller = caller]

\* A direct initialize() call, as the command line and the chat agent make.
initialize ==
  /\ ~initialized
  /\ discovery.pc = "idle"
  /\ StartInitialize(0)
  /\ UNCHANGED << agentSide, agencies, agencyConfigs, initialized,
                  routingHistory, received, stats,
                  overlapping, constructed >>

\* fs.readdir answered with the directory entries.
ReaddirAnswered ==
  /\ discovery.pc = "readdir"
  /\ discovery' = [discovery EXCEPT !.pc = "config", !.k = 1]
  /\ UNCHANGED << agentSide, agencies, agencyConfigs, initialized,
                  routingHistory, received, stats,
                  overlapping, constructed >>

\* fs.readdir failed: discoverAgencies logs the error (lines 49-51) and
\* initialize ends as if there were no directories.
ReaddirFailed ==
  /\ discovery.pc = "readdir"
  /\ InitializeReturns
  /\ UNCHANGED << agentSide, agencies, agencyConfigs, routingHistory,
                  stats,
                  overlapping, constructed >>

\* loadAgency, lines 62-65: agency.json is read, parsed and stored.
ConfigLoaded ==
  /\ discovery.pc = "config"
  /\ agencyConfigs' = MapSet(agencyConfigs, AgencyDirs[discovery.k])
  /\ discovery' = [discovery EXCEPT !.pc = "manager"]
  /\ UNCHANGED << agentSide, agencies, initialized, routingHistory,
                  received, stats,
                  overlapping, constructed >>

\* loadAgency: agency.json is missing or is not JSON; the catch of lines
\* 78-80 logs a warning and loadAgency returns.
ConfigLoadFailed ==
  /\ discovery.pc = "config"
  /\ LoadAgencyReturns(discovery.failed \cup {AgencyDirs[discovery.k]})
  /\ UNCHANGED << agentSide, agencies, agencyConfigs, routingHistory,
                  stats,
                  overlapping, constructed >>

\* loadAgency, lines 68-72: ProjectManager.js is imported, constructed and
\* stored.
ManagerLoaded ==
  /\ discovery.pc = "manager"
  /\ agencies' = MapSet(agencies, AgencyDirs[discovery.k])
  /\ constructed' = [constructed EXCEPT ![AgencyDirs[discovery.k]] = @ + 1]
  /\ LoadAgencyReturns(discovery.failed)
  /\ UNCHANGED << agentSide, agencyConfigs, routingHistory, stats,
                  overlapping >>

\* loadAgency: the import or the constructor of the project manager fails;
\* the catch of lines 78-80 logs a warning and loadAgency returns, the
\* config stored at line 65 stays.
ManagerLoadFailed ==
  /\ discovery.pc = "manager"
  /\ LoadAgencyReturns(discovery.failed \cup {AgencyDirs[discovery.k]})
  /\ UNCHANGED << agentSide, agencies, agencyConfigs, routingHistory,
                  stats,
                  overlapping, constructed >>

\* registerAgency(name, projectManager, config) with or without a config.
registerAgency(name, withConfig) ==
  /\ agencies' = MapSet(agencies, name)
  /\ agencyConfigs' = IF withConfig THEN MapSet(agencyConfigs, name)
                      ELSE agencyConfigs
  /\ UNCHANGED << agentSide, initialized, discovery, routingHistory,
                  received, stats,
                  overlapping, constructed >>

\* receiveRequest from the call of determineAgency (line 102) to the throw
\* of line 105 or to the call of routeToAgency.
DetermineFor(r, q) ==
  LET targetAgency == determineAgency(agencyConfigs, agencies, q) IN
    received' =
      [received EXCEPT ![r] =
         IF targetAgency = NoAgency
           THEN [@ EXCEPT !.pc = "failed", !.q = q, !.outcome = "thrown",
                          !.error = "No suitable agency found"]
           ELSE [@ EXCEPT !.pc = "determined", !.q = q,
                          !.target = targetAgency]]

\* receiveRequest(request) for request text q: an orchestrator that is not
\* initialized yet is initialized first.
receiveRequest(r, q) ==
  /\ received[r].pc = "idle"
  /\ IF initialized
       THEN /\ DetermineFor(r, q)
            /\ UNCHANGED discovery
       ELSE /\ discovery.pc = "idle"
            /\ StartInitialize(r)
            /\ received' = [received EXCEPT ![r].pc = "initializing",
                                          ![r].q = q]
  /\ UNCHANGED << agentSide, agencies, agencyConfigs, initialized,
                  routingHistory, stats,
                  overlapping, constructed >>

\* receiveRequest goes on after the initialize call it awaited.
RequestResumes(r) ==
  /\ received[r].pc = "resumed"
  /\ DetermineFor(r, received[r].q)
  /\ UNCHANGED << agentSide, agencies, agencyConfigs, initialized,
                  discovery, routingHistory, stats,
                  overlapping, constructed >>

\* A routeToAgency that records the routing before it looks the agency up.
routeToAgencyRecordFirst(r) ==
  /\ received[r].pc = "determined"
  /\ routingHistory' =
       Append(routingHistory,
              [to |-> received[r].target, request |-> received[r].q,
               status |-> "undefined"])
  /\ received' =
       IF MapHas(agencies, received[r].target)
         THEN [received EXCEPT ![r].pc = "routed",
                               ![r].routing = Len(routingHistory) + 1]
         ELSE [received EXCEPT ![r].pc = "failed", ![r].outcome = "thrown",
                               ![r].error = "Agency not found"]
  /\ UNCHANGED << agentSide, agencies, agencyConfigs, initialized,
                  discovery, stats, overlapping, constructed >>

\* routeToAgency (lines 172-192) up to the call of receivePrompt: the
\* routing record is pushed before the project manager has answered.
routeToAgency(r) ==
  /\ received[r].pc = "determined"
  /\ IF MapHas(agencies, received[r].target)
       THEN /\ routingHistory' =
                 Append(routingHistory,
                        [to |-> received[r].target, request |-> received[r].q,
                         status |-> "undefined"])
            /\ received' = [received EXCEPT
                             ![r].pc = "routed",
                             ![r].routing = Len(routingHistory) + 1]
       ELSE /\ routingHistory' = routingHistory
            /\ received' = [received EXCEPT
                             ![r].pc = "failed", ![r].outcome = "thrown",
                             ![r].error = "Agency not found"]
  /\ UNCHANGED << agentSide, agencies, agencyConfigs, initialized,
                  discovery, stats,
                  overlapping, constructed >>

\* receivePrompt returned: lines 194-203.
PromptReturned(r) ==
  /\ received[r].pc = "routed"
  /\ routingHistory' = [routingHistory EXCEPT
                          ![received[r].routing].status = "success"]
  /\ received' = [received EXCEPT ![r].pc = "done", ![r].outcome = "returned"]
  /\ UNCHANGED << agentSide, agencies, agencyConfigs, initialized,
                  discovery, stats,
                  overlapping, constructed >>

\* receivePrompt threw: lines 205-212.
PromptThrew(r) ==
  /\ received[r].pc = "routed"
  /\ routingHistory' = [routingHistory EXCEPT
                          ![received[r].routing].status = "error"]
  /\ received' = [received EXCEPT ![r].pc = "failed", ![r].outcome = "thrown",
                                ![r].error = "receivePrompt failed"]
  /\ UNCHANGED << agentSide, agencies, agencyConfigs, initialized,
                  discovery, stats,
                  overlapping, constructed >>

\* How many routing records have the given status.
RoutingsWith(status) ==
  Cardinality({i \in 1..Len(routingHistory) :
                 routingHistory[i].status = status})

\* getStats() (lines 263-287); of lastRouting, its status.
getStats ==
  /\ stats' =
       [totalAgencies |-> Len(agencies),
        totalRoutings |-> Len(routingHistory),
        successfulRoutings |-> RoutingsWith("success"),
        failedRoutings |-> RoutingsWith("error"),
        lastRouting |-> IF Len(routingHistory) = 0 THEN "none"
                        ELSE routingHistory[Len(routingHistory)].status]
  /\ UNCHANGED << agentSide, agencies, agencyConfigs, initialized,
                  discovery, routingHistory, received,
                  overlapping, constructed >>

\* receiveRequest(request) for request text q while an initialize call is
\* running: this.initialized is still false (it is set at line 27, after
\* the awaited discovery), so lines 95-97 and 19-25 start a discovery of
\* their own.
receiveRequestOverlapping(r, q) ==
  /\ received[r].pc = "idle"
  /\ ~initialized
  /\ discovery.pc # "idle"
  /\ overlapping' = [overlapping EXCEPT ![r] = [pc |-> "readdir", k |-> 0]]
  /\ received' = [received EXCEPT ![r].pc = "initializing", ![r].q = q]
  /\ UNCHANGED << agentSide, agencies, agencyConfigs, initialized, discovery,
                  routingHistory, stats, constructed >>

\* loadAgency has returned in the discovery of receiveRequest call r: its
\* loop goes to the next entry, or its initialize ends (line 27) and the
\* call goes on.
OverlappingReturns(r) ==
  IF overlapping[r].pc # "readdir" /\ overlapping[r].k < Len(AgencyDirs)
    THEN /\ overlapping' = [overlapping EXCEPT ![r].pc = "config",
                                               ![r].k = @ + 1]
         /\ UNCHANGED << initialized, received >>
    ELSE /\ overlapping' = [overlapping EXCEPT ![r].pc = "returned"]
         /\ initialized' = TRUE
         /\ received' = [received EXCEPT ![r].pc = "resumed"]

\* In the discovery of call r, fs.readdir has answered or has failed
\* (lines 42 and 49-51).
OverlappingReaddir(r, answered) ==
  /\ overlapping[r].pc = "readdir"
  /\ IF answered
       THEN /\ overlapping' = [overlapping EXCEPT ![r].pc = "config",
                                                  ![r].k = 1]
            /\ UNCHANGED << initialized, received >>
       ELSE OverlappingReturns(r)
  /\ UNCHANGED << agentSide, agencies, agencyConfigs, discovery,
                  routingHistory, stats, constructed >>

\* In the discovery of call r, loadAgency has stored the config of its
\* entry (lines 62-65) or has failed to read it (lines 78-80).
OverlappingConfig(r, loaded) ==
  /\ overlapping[r].pc = "config"
  /\ IF loaded
       THEN /\ agencyConfigs' =
                 MapSet(agencyConfigs, AgencyDirs[overlapping[r].k])
            /\ overlapping' = [overlapping EXCEPT ![r].pc = "manager"]
            /\ UNCHANGED << initialized, received, discovery >>
       ELSE /\ OverlappingReturns(r)
            /\ discovery' =
                 [discovery EXCEPT
                    !.failed = @ \cup {AgencyDirs[overlapping[r].k]}]
            /\ UNCHANGED agencyConfigs
  /\ UNCHANGED << agentSide, agencies, routingHistory, stats, constructed >>

\* In the discovery of call r, loadAgency has constructed a project
\* manager and stored it under the name of its entry (lines 68-72), where
\* it replaces the one stored before, or has failed to (lines 78-80).
OverlappingManager(r, loaded) ==
  /\ overlapping[r].pc = "manager"
  /\ OverlappingReturns(r)
  /\ IF loaded
       THEN /\ agencies' = MapSet(agencies, AgencyDirs[overlapping[r].k])
            /\ constructed' =
                 [constructed EXCEPT ![AgencyDirs[overlapping[r].k]] = @ + 1]
            /\ UNCHANGED discovery
       ELSE /\ discovery' =
                 [discovery EXCEPT
                    !.failed = @ \cup {AgencyDirs[overlapping[r].k]}]
            /\ UNCHANGED << agencies, constructed >>
  /\ UNCHANGED << agentSide, agencyConfigs, routingHistory, stats >>

----------------------------------------------------------------------------
(* ProjectManager: receivePrompt, createAgentPrompts, routeTasks           *)

\* What the project manager's steps leave alone.
managerSide ==
  << agentVars, FALLBACK_ENABLED, modelSelections, classified, switchErrors,
     orchestratorVars, periphery >>

\* The messages of the errors execute throws for a failure that is not of
\* the rate-limit class.
FatalMessages == {message \in ThrownMessages : ~RateLimitClass[message]}

\* How an execute call of a step ends: << >> for a result, or the message
\* of the error thrown.
ExecuteEnds == {<< >>} \cup FatalMessages

\* The failures so far, with the one of this step if it failed.
FailuresWith(step, failure) ==
  IF failure = << >> THEN managed.failures
  ELSE Append(managed.failures, [step |-> step, error |-> failure])

\* receivePrompt(prompt) up to the planning prompt (lines 52-76).
receivePrompt ==
  /\ managed.pc \in {"idle", "returned", "thrown"}
  /\ managed' = [NoPrompt EXCEPT !.pc = "planning"]
  /\ UNCHANGED managerSide

\* The planning prompt has ended (lines 76-80 and 92-95): an error leaves
\* receivePrompt.
PlanExecuted(failure) ==
  /\ managed.pc = "planning"
  /\ managed' =
       IF failure = << >>
         THEN [managed EXCEPT !.pc = "prompts"]
         ELSE [managed EXCEPT !.pc = "thrown", !.error = failure,
                              !.failures = FailuresWith("planning", failure)]
  /\ UNCHANGED managerSide

\* The keys a prompts object can have.
PromptKeys == {"CodeAgent", "CodeValidator", "executionEnvironment"}

\* createAgentPrompts (lines 99-147): the prompts are parsed from the
\* answer when it holds JSON, with the keys of keys that the JSON has, and
\* are the fallback prompts when it holds none or when the execute call
\* failed (the catch of lines 135-139); prompts.executionEnvironment is set
\* when the original prompt includes code (142-144). routeTasks is entered
\* at once: without prompts.CodeAgent it goes to line 253.
createAgentPrompts(failure, parsed, keys) ==
  /\ managed.pc = "prompts"
  /\ LET prompts == IF failure = << >> /\ parsed THEN keys
                    ELSE keys \cup {"CodeAgent", "CodeValidator"}
     IN managed' =
          [managed EXCEPT
             !.pc = IF "CodeAgent" \in prompts THEN "coding"
                    ELSE "approving",
             !.prompts = IF failure = << >> /\ parsed THEN "parsed"
                         ELSE "fallback",
             !.keys = prompts,
             !.finalStatus = IF "CodeAgent" \in prompts THEN @
                             ELSE "awaiting_approval",
             !.failures = FailuresWith("createAgentPrompts", failure)]
  /\ UNCHANGED managerSide

\* routeTasks, steps 1 and 2 (lines 159-202 and 259-264):
\* CodeAgent.receiveTask rethrows the error of its execute call, which
\* leaves routeTasks and receivePrompt; its code, if there is any, goes to
\* the execution environment and to validation where the prompts ask for
\* them, and line 253 is reached when validation is not entered.
receiveTask(failure, code) ==
  /\ managed.pc = "coding"
  /\ LET validates == code /\ "CodeValidator" \in managed.keys
         executes == code /\ "executionEnvironment" \in managed.keys
     IN managed' =
          IF failure # << >>
            THEN [managed EXCEPT
                    !.pc = "thrown", !.error = failure,
                    !.finalStatus = "error",
                    !.failures = FailuresWith("receiveTask", failure)]
            ELSE [managed EXCEPT
                    !.pc = IF validates THEN "validating" ELSE "approving",
                    !.code = code,
                    !.steps = IF executes
                                THEN << "CodeAgent", "executionEnvironment" >>
                                ELSE << "CodeAgent" >>,
                    !.finalStatus = IF validates THEN @
                                    ELSE "awaiting_approval"]
  /\ UNCHANGED managerSide

\* A routeTasks that iterates after every validation.
validateTaskAlwaysIterates(failure, passed) ==
  /\ managed.pc = "validating"
  /\ managed' =
       [managed EXCEPT
          !.pc = "iterating",
          !.steps = Append(@, "CodeValidator"),
          !.validation = IF failure # << >> THEN "error"
                         ELSE IF passed THEN "passed" ELSE "needsAdjustment",
          !.failures = FailuresWith("validateTask", failure)]
  /\ UNCHANGED managerSide

\* routeTasks, step 3 (lines 205-250) with CodeValidator.validateTask
\* (413-498): the validation passed or needs adjustment; an error of the
\* execute call is caught and returned as a validation that needs
\* adjustment (lines 489-497).
validateTask(failure, passed) ==
  /\ managed.pc = "validating"
  /\ managed' =
       [managed EXCEPT
          !.pc = IF failure = << >> /\ passed THEN "approving"
                 ELSE "iterating",
          !.steps = Append(@, "CodeValidator"),
          !.validation = IF failure # << >> THEN "error"
                         ELSE IF passed THEN "passed" ELSE "needsAdjustment",
          !.finalStatus = IF failure = << >> /\ passed
                            THEN "awaiting_approval" ELSE @,
          !.failures = FailuresWith("validateTask", failure)]
  /\ UNCHANGED managerSide

\* iterateAdjustment (lines 277-308): an error of the execute call is
\* caught and returned in place of the suggestions.
iterateAdjustment(failure) ==
  /\ managed.pc = "iterating"
  /\ managed' =
       [managed EXCEPT
          !.pc = "approving",
          !.steps = Append(@, "iteration"),
          !.finalStatus = "awaiting_approval",
          !.failures = FailuresWith("iterateAdjustment", failure)]
  /\ UNCHANGED managerSide

\* submitForApproval (lines 311-344), then the returns of routeTasks (257)
\* and receivePrompt (85-90): an error of the execute call is caught and
\* returned as an approval of status 'error'.
submitForApproval(failure) ==
  /\ managed.pc = "approving"
  /\ managed' =
       [managed EXCEPT
          !.pc = "returned",
          !.approval = IF failure = << >> THEN "awaiting_approval"
                       ELSE "error",
          !.failures = FailuresWith("submitForApproval", failure)]
  /\ UNCHANGED managerSide

----------------------------------------------------------------------------
(* ChatAgent: start, stop, receiveInput, clearHistory                      *)

\* What the steps of the parts below leave alone.
core ==
  << agentVars, FALLBACK_ENABLED, modelSelections, classified, switchErrors,
     orchestratorVars, managed >>

\* The messages of the errors sendToOrchestrator throws: its own (line
\* 78) and the ones orchestrator.receiveRequest throws.
ChatErrors ==
  {"Orchestrator not connected", "No suitable agency found",
   "receivePrompt failed"}

\* start() and stop().
start ==
  /\ isActive' = TRUE
  /\ UNCHANGED << core, conversationHistory, inputs, voiceVars, historyVars,
                  mcpVars >>

stop ==
  /\ isActive' = FALSE
  /\ UNCHANGED << core, conversationHistory, inputs, voiceVars, historyVars,
                  mcpVars >>

\* receiveInput(input, type), call number c, up to the awaited
\* sendToOrchestrator (lines 25-44): an inactive agent throws, an active
\* one records the user's message first.
receiveInput(c) ==
  /\ inputs[c].pc = "idle"
  /\ IF isActive
       THEN /\ conversationHistory' =
                 Append(conversationHistory, [type |-> "user", call |-> c])
            /\ inputs' = [inputs EXCEPT ![c].pc = "sent"]
       ELSE /\ conversationHistory' = conversationHistory
            /\ inputs' = [inputs EXCEPT
                            ![c] = [pc |-> "failed",
                                    outcome |-> "Chat Agent is not active"]]
  /\ UNCHANGED << core, isActive, voiceVars, historyVars, mcpVars >>

\* sendToOrchestrator has returned a result (lines 44-55).
OrchestratorReturned(c) ==
  /\ inputs[c].pc = "sent"
  /\ conversationHistory' =
       Append(conversationHistory, [type |-> "system", call |-> c])
  /\ inputs' = [inputs EXCEPT ![c] = [pc |-> "done", outcome |-> "returned"]]
  /\ UNCHANGED << core, isActive, voiceVars, historyVars, mcpVars >>

\* A receiveInput whose catch rethrows without recording the error.
OrchestratorThrewUnrecorded(c, message) ==
  /\ inputs[c].pc = "sent"
  /\ inputs' = [inputs EXCEPT ![c] = [pc |-> "failed", outcome |-> message]]
  /\ UNCHANGED << core, isActive, conversationHistory, voiceVars,
                  historyVars, mcpVars >>

\* sendToOrchestrator has thrown (lines 57-70): the error is recorded and
\* thrown again.
OrchestratorThrew(c, message) ==
  /\ inputs[c].pc = "sent"
  /\ conversationHistory' =
       Append(conversationHistory, [type |-> "error", call |-> c])
  /\ inputs' = [inputs EXCEPT ![c] = [pc |-> "failed", outcome |-> message]]
  /\ UNCHANGED << core, isActive, voiceVars, historyVars, mcpVars >>

\* clearHistory() (lines 90-92).
clearHistory ==
  /\ conversationHistory' = << >>
  /\ UNCHANGED << core, isActive, inputs, voiceVars, historyVars, mcpVars >>

----------------------------------------------------------------------------
(* VoiceModule: startRecording, stopRecording, speak, stopSpeaking         *)

\* What the voice module's steps leave alone.
voiceSide == << core, chatVars, historyVars, mcpVars >>

\* The values of this.state (line 28).
VoiceStates == {"idle", "recording", "processing", "speaking"}

\* startRecording() (lines 89-107) with adapter.startRecognition
\* (WebSpeechAdapter.js, 122-141): a recognition that is active or was
\* started already rejects, and handleError sets the state back to idle.
startRecording ==
  /\ state = "idle"
  /\ state' = IF recognition = "off" THEN "recording" ELSE "idle"
  /\ recognition' = IF recognition = "off" THEN "starting" ELSE recognition
  /\ UNCHANGED << voiceSide, speakingEnded, currentUtterance, cancelled,
                  handed, requested >>

\* stopRecording() (lines 112-127) with adapter.stopRecognition (146-160):
\* a recognition that is not active rejects, and handleError sets the
\* state to idle.
stopRecording ==
  /\ state = "recording"
  /\ state' = IF recognition = "active" THEN "processing" ELSE "idle"
  /\ UNCHANGED << voiceSide, speakingEnded, recognition, currentUtterance,
                  cancelled, handed, requested >>

\* recognition.onstart (WebSpeechAdapter.js, 62-65; handleRecognitionStart).
RecognitionStarted ==
  /\ recognition = "starting"
  /\ recognition' = "active"
  /\ UNCHANGED << voiceSide, state, speakingEnded, currentUtterance,
                  cancelled, handed, requested >>

\* recognition.onend (WebSpeechAdapter.js, 67-70) with
\* handleRecognitionEnd (lines 187-191), which sets the state to idle
\* whatever it was.
handleRecognitionEnd ==
  /\ recognition # "off"
  /\ recognition' = "off"
  /\ state' = "idle"
  /\ UNCHANGED << voiceSide, speakingEnded, currentUtterance, cancelled,
                  handed, requested >>

\* recognition.onerror (WebSpeechAdapter.js, 101-116) with handleError
\* (lines 359-369).
RecognitionError ==
  /\ recognition # "off"
  /\ state' = "idle"
  /\ UNCHANGED << voiceSide, speakingEnded, recognition, currentUtterance,
                  cancelled, handed, requested >>

\* adapter.speak(utterance) up to SpeechSynthesis.speak
\* (WebSpeechAdapter.js, 196-251) while the synthesizer speaks playing and
\* the events of the utterances of pending are still to come: the speech
\* going on is cancelled, then the utterance is spoken.
AdapterSpeak(text, playing, pending) ==
  /\ cancelled' = IF playing = NoUtterance THEN pending
                  ELSE pending \cup {playing}
  /\ currentUtterance' = text
  /\ handed' = Append(handed, [text |-> text, over |-> playing])

\* emit('speakingEnded') in state idle: the first once-listener calls
\* speak, which hands its text to the adapter (lines 210-236); the others
\* find the state 'speaking' and register themselves again (203-208).
\* speaks tells whether a listener has spoken.
EmitSpeakingEnded(playing, pending) ==
  IF speakingEnded = << >>
    THEN /\ currentUtterance' = playing
         /\ cancelled' = pending
         /\ UNCHANGED << handed, speakingEnded >>
    ELSE /\ AdapterSpeak(Head(speakingEnded), playing, pending)
         /\ speakingEnded' = Tail(speakingEnded)

\* speak(text) with TTS enabled (lines 194-245): in state 'speaking' the
\* text is queued behind the speakingEnded event, in every other state it
\* is handed to the adapter.
speak(text) ==
  /\ text \notin requested
  /\ requested' = requested \cup {text}
  /\ IF state = "speaking"
       THEN /\ speakingEnded' = Append(speakingEnded, text)
            /\ UNCHANGED << state, currentUtterance, cancelled, handed >>
       ELSE /\ state' = "speaking"
            /\ AdapterSpeak(text, currentUtterance, cancelled)
            /\ UNCHANGED speakingEnded
  /\ UNCHANGED << voiceSide, recognition >>

\* The last event of utterance u, which the synthesizer is speaking or
\* which was cancelled: utterance.onend with the onEnd of speak (lines
\* 219-223), or utterance.onerror with its onError (224-228), handleError
\* and the catch of speak (238-241), which leave the state idle also when
\* a listener has spoken meanwhile.
UtteranceOver(u, errored) ==
  /\ u # NoUtterance
  /\ u = currentUtterance \/ u \in cancelled
  /\ EmitSpeakingEnded(IF u = currentUtterance THEN NoUtterance
                       ELSE currentUtterance,
                       cancelled \ {u})
  /\ state' = IF errored \/ speakingEnded = << >> THEN "idle"
              ELSE "speaking"
  /\ UNCHANGED << voiceSide, recognition, requested >>

\* stopSpeaking() (lines 250-264) with adapter.stopSpeaking
\* (WebSpeechAdapter.js, 257-262).
stopSpeaking ==
  /\ state = "speaking"
  /\ state' = "idle"
  /\ cancelled' = IF currentUtterance = NoUtterance THEN cancelled
                  ELSE cancelled \cup {currentUtterance}
  /\ currentUtterance' = NoUtterance
  /\ UNCHANGED << voiceSide, speakingEnded, recognition, handed, requested >>

----------------------------------------------------------------------------
(* VoiceHistory: add, export, import                                       *)

\* The sequences of at most n entries, each entry given by its id.
RECURSIVE EntriesUpTo(_)
EntriesUpTo(n) ==
  IF n = 0 THEN {<< >>}
  ELSE LET shorter == EntriesUpTo(n - 1)
       IN shorter \cup {Append(e, id) : e \in shorter, id \in EntryIds}

\* The entries of the data given to import: what export() (lines 166-173)
\* returned for this history or for another one, also one of greater
\* maxSize, and files written by other programs.
ImportData == EntriesUpTo(MaxSize + 1)

\* Array.prototype.slice(0, n).
SliceTo(entries, n) ==
  IF Len(entries) > n THEN SubSeq(entries, 1, n) ELSE entries

\* The ids of the given entries (new Set(history.map(e => e.id))).
IdsOf(entries) == {entries[i] : i \in 1..Len(entries)}

\* Array.prototype.filter with the test !existingIds.has(e.id).
RECURSIVE Without(_, _)
Without(entries, existingIds) ==
  IF entries = << >> THEN << >>
  ELSE IF Head(entries) \in existingIds
         THEN Without(Tail(entries), existingIds)
         ELSE << Head(entries) >> \o Without(Tail(entries), existingIds)

\* add(entry) (lines 30-52) for an entry with a new id, as generateId of
\* the voice module makes them.
add(id) ==
  /\ id \notin IdsOf(history)
  /\ history' = SliceTo(<< id >> \o history, MaxSize)
  /\ UNCHANGED << core, chatVars, voiceVars, imported, mcpVars >>

\* import(data) (lines 178-198) for data that has an entries array.
import(entries) ==
  /\ imported.calls < MaxImports
  /\ LET existingIds == IdsOf(history)
         newEntries == Without(entries, existingIds)
         merged == SliceTo(newEntries \o history, MaxSize)
     IN /\ history' = merged
        /\ imported' = [calls |-> imported.calls + 1, entries |-> entries,
                        before |-> history, after |-> merged,
                        returned |-> Len(newEntries)]
  /\ UNCHANGED << core, chatVars, voiceVars, mcpVars >>

----------------------------------------------------------------------------
(* Dashboard server: startMcpChild, sendMcpRequest                         *)

\* What the steps of the MCP child path leave alone.
mcpSide == << core, chatVars, voiceVars, historyVars >>

\* The ways a sendMcpRequest call is settled over the child path: resolved
\* with the matching response (line 41) or with the error of the exit
\* handler (57), rejected by its timer (100) or after a write to the
\* child's stdin that threw (99).
Settlements == {"response", "exited", "timed out", "write failed"}

\* The promise of the call that holds the given id is settled once more.
SettleId(requests, id, how) ==
  [c \in McpCalls |->
     IF requests[c].id = id
       THEN [requests[c] EXCEPT
               !.pc = IF how \in {"response", "exited"} THEN "resolved"
                      ELSE "rejected",
               !.settled = Append(@, how)]
       ELSE requests[c]]

\* The promises behind all ids of the given set are resolved by the exit
\* handler.
RECURSIVE SettleAll(_, _)
SettleAll(requests, ids) ==
  IF ids = {} THEN requests
  ELSE LET id == CHOOSE i \in ids : TRUE
       IN SettleAll(SettleId(requests, id, "exited"), ids \ {id})

\* sendMcpRequest(method, params), call number c, while the socket does
\* not exist (lines 92-101): the child is started if there is none, the
\* resolver is stored under a new id and the payload written; a write that
\* throws removes the entry and rejects, otherwise the timer is set.
sendMcpRequest(c, written) ==
  /\ mcpRequests[c].pc = "idle"
  /\ mcpProc' = ChildProc
  /\ mcpIdCounter' = mcpIdCounter + 1
  /\ IF written
       THEN /\ mcpPending' = mcpPending \cup {mcpIdCounter}
            /\ mcpRequests' =
                 [mcpRequests EXCEPT
                    ![c] = [pc |-> "pending", id |-> mcpIdCounter,
                            settled |-> << >>, timer |-> TRUE]]
       ELSE /\ mcpPending' = mcpPending
            /\ mcpRequests' =
                 [mcpRequests EXCEPT
                    ![c] = [pc |-> "rejected", id |-> mcpIdCounter,
                            settled |-> << "write failed" >>,
                            timer |-> FALSE]]
  /\ UNCHANGED << mcpSide, mcpStdout >>

\* The child writes a line that carries the given id to its stdout: the
\* answer to a request, or to one answered before.
ChildResponds(id) ==
  /\ mcpProc # NoProc
  /\ id \in 1..(mcpIdCounter - 1)
  /\ id \notin mcpStdout
  /\ mcpStdout' = mcpStdout \cup {id}
  /\ UNCHANGED << mcpSide, mcpProc, mcpPending, mcpIdCounter, mcpRequests >>

\* The 'data' handler of the child's stdout (lines 31-49) for a line that
\* carries the given id: the resolver stored under the id, if there is
\* one, is called and removed.
StdoutData(id) ==
  /\ id \in mcpStdout
  /\ mcpStdout' = mcpStdout \ {id}
  /\ mcpPending' = mcpPending \ {id}
  /\ mcpRequests' = IF id \in mcpPending
                      THEN SettleId(mcpRequests, id, "response")
                      ELSE mcpRequests
  /\ UNCHANGED << mcpSide, mcpProc, mcpIdCounter >>

\* The 'exit' handler of the child (lines 54-62): every resolver stored is
\* called with an error and removed.
ChildExited ==
  /\ mcpProc # NoProc
  /\ mcpProc' = NoProc
  /\ mcpRequests' = SettleAll(mcpRequests, mcpPending)
  /\ mcpPending' = {}
  /\ UNCHANGED << mcpSide, mcpIdCounter, mcpStdout >>

\* startMcpChild() as the timer of the exit handler calls it (line 61); a
\* timer that finds a child returns at line 26.
startMcpChild ==
  /\ mcpProc = NoProc
  /\ mcpIdCounter > 1
  /\ mcpProc' = ChildProc
  /\ UNCHANGED << mcpSide, mcpPending, mcpIdCounter, mcpRequests, mcpStdout >>

\* A timer that rejects whether the entry is still stored or not.
McpTimeoutUnchecked(c) ==
  /\ mcpRequests[c].timer
  /\ mcpPending' = mcpPending \ {mcpRequests[c].id}
  /\ mcpRequests' =
       [SettleId(mcpRequests, mcpRequests[c].id, "timed out") EXCEPT
          ![c].timer = FALSE]
  /\ UNCHANGED << mcpSide, mcpProc, mcpIdCounter, mcpStdout >>

\* The timer of call c fires (line 100): it rejects if the entry is still
\* stored, and removes it.
McpTimeout(c) ==
  /\ mcpRequests[c].timer
  /\ mcpPending' = mcpPending \ {mcpRequests[c].id}
  /\ mcpRequests' =
       [(IF mcpRequests[c].id \in mcpPending
           THEN SettleId(mcpRequests, mcpRequests[c].id, "timed out")
           ELSE mcpRequests) EXCEPT ![c].timer = FALSE]
  /\ UNCHANGED << mcpSide, mcpProc, mcpIdCounter, mcpStdout >>

----------------------------------------------------------------------------
(* Specifications                                                          *)

\* One caller that awaits each execute call before it makes the next one
\* (as routeTasks does), with model switches and a server that may stop.
Next ==
  \/ ExecutePrompt(1)
  \/ ExecuteTask(1)
  \/ SessionCreated(1)
  \/ SessionCreateFailed(1)
  \/ SendPrompt(1)
  \/ PromptSucceeded(1)
  \/ PromptFailed(1)
  \/ TryFallback(1)
  \/ \E m \in ModelNames : switchModel(m)
  \/ BackendStops

Spec == Init /\ [][Next]_vars

\* The same caller, with FALLBACK_ENABLED set either way when the process
\* starts.
EnvSpec == EnvInit /\ [][Next]_vars

\* The event loop runs every continuation that is ready, and a server that
\* is up answers every request; nothing makes a stopped server answer.
FairSpec == Spec /\ WF_vars(Next)

\* Several project managers' prompts running on the agent at the same time.
ConcurrentNext ==
  \/ \E t \in Tasks : ExecutePrompt(t)
  \/ \E t \in Tasks : SessionCreated(t)
  \/ \E t \in Tasks : SessionCreateFailed(t)
  \/ \E t \in Tasks : SendPrompt(t)
  \/ \E t \in Tasks : PromptSucceeded(t)
  \/ \E t \in Tasks : PromptFailed(t)
  \/ \E t \in Tasks : TryFallback(t)

ConcurrentSpec == Init /\ [][ConcurrentNext]_vars

\* A caller that chooses the model of each call itself.
OverrideNext ==
  \/ ExecuteOverride(1)
  \/ SessionCreated(1)
  \/ SessionCreateFailed(1)
  \/ SendPrompt(1)
  \/ PromptSucceeded(1)
  \/ PromptFailed(1)
  \/ TryFallback(1)
  \/ reset

OverrideSpec == Init /\ [][OverrideNext]_vars

\* A caller that overrides the model per call, selects models with the
\* scorer and switches the agent's model, with names of its own choice.
FrameNext ==
  \/ ExecuteOverride(1)
  \/ SessionCreated(1)
  \/ SendPrompt(1)
  \/ PromptSucceeded(1)
  \/ \E d \in 1..Len(Descriptions) : Recommend(d, RoutePreferences)
  \/ \E m \in RequestedModels : switchModel(m)

FrameSpec == Init /\ [][FrameNext]_vars

\* An orchestrator that discovers its agencies or has them registered, and
\* routes the requests it receives while a reader polls its statistics.
OrchestratorNext ==
  \/ initialize
  \/ ReaddirAnswered
  \/ ReaddirFailed
  \/ ConfigLoaded
  \/ ConfigLoadFailed
  \/ ManagerLoaded
  \/ ManagerLoadFailed
  \/ \E name \in AgencyNames : registerAgency(name, TRUE)
  \/ \E r \in Requests, q \in 1..Len(RequestTexts) : receiveRequest(r, q)
  \/ \E r \in Requests : RequestResumes(r)
  \/ \E r \in Requests : routeToAgency(r)
  \/ \E r \in Requests : PromptReturned(r)
  \/ \E r \in Requests : PromptThrew(r)

OrchestratorSpec == Init /\ [][OrchestratorNext]_vars

\* The system as index.js builds it, BuildingAgency registered by hand,
\* with requests under way while a reader polls the statistics.
ReaderNext ==
  \/ registerAgency("BuildingAgency", FALSE)
  \/ ReaddirAnswered
  \/ ReaddirFailed
  \/ ConfigLoaded
  \/ ConfigLoadFailed
  \/ ManagerLoaded
  \/ ManagerLoadFailed
  \/ \E r \in Requests, q \in 1..Len(RequestTexts) : receiveRequest(r, q)
  \/ \E r \in Requests : RequestResumes(r)
  \/ \E r \in Requests : routeToAgency(r)
  \/ \E r \in Requests : PromptReturned(r)
  \/ \E r \in Requests : PromptThrew(r)
  \/ getStats

ReaderSpec == Init /\ [][ReaderNext]_vars

\* A project manager that processes one prompt after the other, each of
\* its execute calls ending with a result or with a fatal error.
ManagerNext ==
  \/ receivePrompt
  \/ \E failure \in ExecuteEnds : PlanExecuted(failure)
  \/ \E failure \in ExecuteEnds, parsed \in BOOLEAN, keys \in SUBSET PromptKeys :
        createAgentPrompts(failure, parsed, keys)
  \/ \E failure \in ExecuteEnds, code \in BOOLEAN :
        receiveTask(failure, code)
  \/ \E failure \in ExecuteEnds, passed \in BOOLEAN :
        validateTask(failure, passed)
  \/ \E failure \in ExecuteEnds : iterateAdjustment(failure)
  \/ \E failure \in ExecuteEnds : submitForApproval(failure)

ManagerSpec == Init /\ [][ManagerNext]_vars

\* An orchestrator that receives its requests while it is being
\* initialized: the callers do not await one another.
InitializingNext ==
  \/ \E r \in Requests : receiveRequest(r, 1)
  \/ \E r \in Requests : receiveRequestOverlapping(r, 1)
  \/ ReaddirAnswered
  \/ ConfigLoaded
  \/ ManagerLoaded
  \/ ManagerLoadFailed
  \/ \E r \in Requests, answered \in BOOLEAN : OverlappingReaddir(r, answered)
  \/ \E r \in Requests, loaded \in BOOLEAN : OverlappingConfig(r, loaded)
  \/ \E r \in Requests, loaded \in BOOLEAN : OverlappingManager(r, loaded)
  \/ \E r \in Requests : RequestResumes(r)
  \/ \E r \in Requests : routeToAgency(r)
  \/ \E r \in Requests : PromptReturned(r)

InitializingSpec == Init /\ [][InitializingNext]_vars

\* A chat agent that is started and stopped while its callers give it
\* input without awaiting one another.
ChatNext ==
  \/ start
  \/ stop
  \/ \E c \in Inputs : receiveInput(c)
  \/ \E c \in Inputs : OrchestratorReturned(c)
  \/ \E c \in Inputs, message \in ChatErrors : OrchestratorThrew(c, message)
  \/ clearHistory

ChatSpec == Init /\ [][ChatNext]_vars

\* A voice module in the browser: push-to-talk recording, speech output
\* asked for at any moment, and the events of recognition and synthesis.
VoiceNext ==
  \/ startRecording
  \/ stopRecording
  \/ RecognitionStarted
  \/ handleRecognitionEnd
  \/ RecognitionError
  \/ \E text \in Utterances : speak(text)
  \/ \E u \in Utterances, errored \in BOOLEAN : UtteranceOver(u, errored)
  \/ stopSpeaking

VoiceSpec == Init /\ [][VoiceNext]_vars

\* A voice history that gets entries added and data imported.
HistoryNext ==
  \/ \E id \in EntryIds : add(id)
  \/ \E entries \in ImportData : import(entries)

HistorySpec == Init /\ [][HistoryNext]_vars

\* A dashboard server without the MCP socket, whose handlers send requests
\* to a child that answers, answers twice, answers late or exits.
McpNext ==
  \/ \E c \in McpCalls, written \in BOOLEAN : sendMcpRequest(c, written)
  \/ \E id \in 1..NumMcpCalls : ChildResponds(id)
  \/ \E id \in 1..NumMcpCalls : StdoutData(id)
  \/ ChildExited
  \/ startMcpChild
  \/ \E c \in McpCalls : McpTimeout(c)

\* Timers fire: setTimeout (line 100) has no way to be cancelled here.
McpSpec ==
  /\ Init
  /\ [][McpNext]_vars
  /\ \A c \in McpCalls : WF_vars(McpTimeout(c))

\* The scorer on its own, over registries, descriptions and preferences.
ScorerNext ==
  \E r \in 1..Len(Registries), d \in 1..Len(TaskDescriptions),
     p \in PreferenceSets : Score(r, d, p)

ScorerSpec == Init /\ [][ScorerNext]_vars

\* Tasks routed to code agents with and without models in their registry.
RouteSelectNext ==
  \E r \in 1..Len(RouteRegistries), d \in 1..Len(TaskDescriptions),
     p \in PreferenceSets : RouteSelect(r, d, p)

RouteSelectSpec == Init /\ [][RouteSelectNext]_vars

\* A project manager that selects models for the descriptions it routes,
\* with PREFER_FREE_MODELS set or not, between its own prompts, model
\* switches and resets.
RoutingNext ==
  \/ \E d \in 1..Len(Descriptions), preferFree \in BOOLEAN :
        Recommend(d, [preferFree |-> preferFree, preferPaid |-> FALSE])
  \/ ExecutePrompt(1)
  \/ SessionCreated(1)
  \/ SendPrompt(1)
  \/ PromptSucceeded(1)
  \/ \E m \in ModelNames : switchModel(m)
  \/ reset

RoutingSpec == Init /\ [][RoutingNext]_vars

\* The classifier on its own, over the error messages.
ClassifierNext ==
  \E modelName \in ModelNames, message \in ErrorMessages :
     Classify(modelName, message)

ClassifierSpec == Init /\ [][ClassifierNext]_vars

----------------------------------------------------------------------------
(* Properties                                                              *)

Terminal(t) == pc[t] \in {"done", "failed"}

Running(t) == pc[t] \in {"creating", "session", "prompting", "fallback"}

\* Try k of call t ended with an error of the rate-limit class.
FailedTransiently(t, k) ==
  /\ invoked[t][k].status = "failed"
  /\ RateLimitClass[invoked[t][k].error]

\* Try k of call t ended with an error of another class.
FailedFatally(t, k) ==
  /\ invoked[t][k].status = "failed"
  /\ ~RateLimitClass[invoked[t][k].error]

\* C1: when the first try of a call fails with a rate-limit error and
\* fallback is enabled, the call tries the fallback models in their order;
\* it ends at the first one that succeeds, returns that model's result and
\* stores a record with success and fallbackUsed; it fails only after
\* every fallback model was tried and failed.
C1_FallbackCompletesTask ==
  \A t \in Tasks :
    (Terminal(t) /\ Len(invoked[t]) >= 1 /\ FailedTransiently(t, 1)
       /\ agentConfig.allowFallback)
    => LET n == Len(invoked[t]) IN
         /\ \A k \in 2..n :
               invoked[t][k].model = agentConfig.fallbackModels[k - 1]
         /\ \A k \in 1..(n - 1) : invoked[t][k].status = "failed"
         /\ \/ /\ invoked[t][n].status = "success"
               /\ pc[t] = "done"
               /\ outcome[t].kind = "returned"
               /\ outcome[t].result =
                    [model |-> invoked[t][n].model, attempt |-> n - 1]
               /\ execution[t].success
               /\ execution[t].fallbackUsed
               /\ execution[t].result = outcome[t].result
               /\ \E i \in 1..Len(executionHistory) :
                     executionHistory[i] = execution[t]
            \/ /\ invoked[t][n].status = "failed"
               /\ n = 1 + Len(agentConfig.fallbackModels)
               /\ pc[t] = "failed"

\* A call that was rate-limited on its first model and on the first
\* fallback model, and completed on the second fallback model.
C1_Witness ==
  \E t \in Tasks :
    /\ pc[t] = "done"
    /\ Len(invoked[t]) = 3
    /\ FailedTransiently(t, 1)
    /\ invoked[t][2].status = "failed"
    /\ execution[t].fallbackUsed

\* C2: once a try of a call has failed with an error that is not of the
\* rate-limit class, no further prompt is sent for that call and the call,
\* when it ends, has failed.
C2_FatalErrorStopsTask ==
  \A t \in Tasks :
    \A k \in 1..Len(invoked[t]) :
      FailedFatally(t, k)
      => /\ \A j \in (k + 1)..Len(invoked[t]) : ~invoked[t][j].sent
         /\ Terminal(t) => pc[t] = "failed"

\* C3: when every model tried for a call failed with a rate-limit error,
\* the error execute throws carries the attempt history: one entry per
\* model tried, in the order tried.
C3_ExhaustionCarriesAttempts ==
  \A t \in Tasks :
    (pc[t] = "failed"
       /\ \A k \in 1..Len(invoked[t]) : FailedTransiently(t, k))
    => /\ "attempts" \in DOMAIN outcome[t].error
       /\ Len(outcome[t].error.attempts) = Len(invoked[t])
       /\ \A k \in 1..Len(invoked[t]) :
             outcome[t].error.attempts[k].model = invoked[t][k].model

\* C4: every execute call that has ended, in success or in failure, has
\* added exactly one record to the history.
C4_OneRecordPerEndedCall ==
  Len(executionHistory) = calls - Cardinality({t \in Tasks : Running(t)})

\* C5: within one call no model is sent a prompt twice: two tries of a call
\* that sent a prompt were made for different models, and their requests
\* name different models.
C5_NoModelTriedTwice ==
  \A t \in Tasks :
    \A i, j \in 1..Len(invoked[t]) :
      (i < j /\ invoked[t][i].sent /\ invoked[t][j].sent)
      => /\ invoked[t][i].model # invoked[t][j].model
         /\ invoked[t][i].requested # invoked[t][j].requested

C7_OneInvocationInFlight ==
  \A t \in Tasks :
    /\ Cardinality({c \in inflight : c.task = t}) <= 1
    /\ \A k \in 1..(Len(invoked[t]) - 1) : invoked[t][k].status # "pending"

\* Two calls with a prompt in flight at the same time, one of them in a
\* fallback try.
C7_Witness ==
  \E t, u \in Tasks :
    /\ t # u
    /\ PromptCall(t) \in inflight
    /\ PromptCall(u) \in inflight
    /\ fbIndex[t] >= 1

\* Every model of the chain was tried for call t and every try failed.
ChainExhausted(t) ==
  /\ Len(invoked[t]) = 1 + Len(agentConfig.fallbackModels)
  /\ \A k \in 1..Len(invoked[t]) : invoked[t][k].status = "failed"

ThrewRateLimit(t) ==
  /\ outcome[t].kind = "thrown"
  /\ RateLimitClass[outcome[t].error.message]

\* C8 as claimed: execute throws a rate-limit error only after every model
\* of the fallback chain was tried and failed.
C8_RateLimitOnlyAfterExhaustion ==
  \A t \in Tasks : ThrewRateLimit(t) => ChainExhausted(t)

\* C8 as amended: with fallback enabled, execute throws a rate-limit error
\* only after every model of the fallback chain was tried and failed, and
\* in every other case the caller gets the result and no error; with
\* fallback disabled the rate-limit error of the first try is thrown after
\* that single try.
C8_RateLimitSurfacing ==
  \A t \in Tasks :
    /\ ThrewRateLimit(t)
       => IF agentConfig.allowFallback
            THEN ChainExhausted(t)
            ELSE Len(invoked[t]) = 1 /\ FailedTransiently(t, 1)
    /\ (Terminal(t) /\ agentConfig.allowFallback
          /\ Len(invoked[t]) >= 1 /\ FailedTransiently(t, 1)
          /\ ~ChainExhausted(t))
       => /\ outcome[t].kind = "returned"
          /\ outcome[t].error = NoError
          /\ outcome[t].result.model = invoked[t][Len(invoked[t])].model

\* A rate-limit error thrown with fallback enabled, after three tries.
C8_Witness ==
  \E t \in Tasks :
    /\ agentConfig.allowFallback
    /\ ThrewRateLimit(t)
    /\ Len(invoked[t]) = 3

\* C9: every execute call that was started reaches a terminal state, also
\* when the server never answers a request (a per-attempt timeout would
\* end the attempt).
C9_EveryCallTerminates ==
  \A t \in Tasks : Running(t) ~> Terminal(t)

\* C10: when a call has ended, its attempts list holds one entry for every
\* try made, failed or successful, in the order made.
C10_EveryTryRecorded ==
  \A t \in Tasks :
    Terminal(t)
    => /\ Len(execution[t].attempts) = Len(invoked[t])
       /\ \A k \in 1..Len(invoked[t]) :
             execution[t].attempts[k].model = invoked[t][k].model

\* C11: the first entry of a call's attempts list names the model the
\* first try was made for (options.model when the caller passed one),
\* whatever the agent's currentModel is.
C11_FirstAttemptNamesModelTried ==
  \A t \in Tasks :
    (Len(execution[t].attempts) >= 1 /\ invoked[t][1].sent)
    => /\ execution[t].attempts[1].model = invoked[t][1].model
       /\ execution[t].attempts[1].model = modelToUse[t]

\* An execution record with more than one entry in its attempts list and
\* success as its outcome.
MoreThanOneAttemptAndSuccess(record) ==
  Len(record.attempts) > 1 /\ record.success

\* C12: in every execution record, stored in the history or held by a call
\* that has ended, fallbackUsed is true exactly when the record has more
\* than one attempt and its outcome is success.
C12_FallbackUsedMeansSeveralAttempts ==
  /\ \A i \in 1..Len(executionHistory) :
        executionHistory[i].fallbackUsed
          <=> MoreThanOneAttemptAndSuccess(executionHistory[i])
  /\ \A t \in Tasks :
        Terminal(t)
        => (execution[t].fallbackUsed
              <=> MoreThanOneAttemptAndSuccess(execution[t]))

\* The four marker texts of the claim.
Markers ==
  { <<"r", "a", "t", "e", " ", "l", "i", "m", "i", "t">>,
    <<"4", "2", "9">>,
    <<"t", "o", "o", " ", "m", "a", "n", "y", " ",
      "r", "e", "q", "u", "e", "s", "t", "s">>,
    <<"q", "u", "o", "t", "a", " ", "e", "x", "c", "e", "e", "d", "e", "d">> }

SameLetter(a, b) ==
  \/ a = b
  \/ a \in DOMAIN LowerOf /\ LowerOf[a] = b
  \/ b \in DOMAIN LowerOf /\ LowerOf[b] = a

\* text contains marker, letters compared without regard to case.
ContainsIgnoringCase(text, marker) ==
  \E i \in 0..(Len(text) - Len(marker)) :
     \A j \in 1..Len(marker) : SameLetter(text[i + j], marker[j])

\* C13: an error is classified as rate-limit-class exactly when its message
\* contains one of the four markers, compared case-insensitively, and the
\* error the provider wrapper throws in its place is classified the same;
\* every other error is classified fatal.
C13_ClassificationByMarkers ==
  classified # NoClassified
  => /\ classified.rateLimit
          <=> \E marker \in Markers :
                 ContainsIgnoringCase(classified.message, marker)
     /\ classified.thrownRateLimit <=> classified.rateLimit

\* A rate-limit message with capital letters, rewrapped by the wrapper of
\* the free tier and still classified as rate-limit-class.
C13_Witness ==
  /\ classified.tier = "free"
  /\ classified.thrown # classified.message
  /\ classified.message # toLowerCase(classified.message)
  /\ classified.rateLimit
  /\ classified.thrownRateLimit

\* C14: with fallback disabled, by allowFallback false in the agent's
\* configuration or by FALLBACK_ENABLED set to false in the environment, a
\* rate-limit error of the first try makes execute fail with that error,
\* and no fallback model is tried.
C14_DisabledFallbackFailsAtOnce ==
  \A t \in Tasks :
    ((~agentConfig.allowFallback \/ FALLBACK_ENABLED = "false")
       /\ Len(invoked[t]) >= 1 /\ FailedTransiently(t, 1))
    => /\ Len(invoked[t]) = 1
       /\ pc[t] = "failed"
       /\ outcome[t].kind = "thrown"
       /\ outcome[t].error.message = invoked[t][1].error

\* The ranking a selection shows: the recommended model, then the
\* alternatives.
RankingOf(selection) ==
  << [model |-> selection.modelRec.recommendedModel,
      score |-> selection.modelRec.score] >>
    \o selection.modelRec.alternatives

\* Position of the model called name in the registry models.
PositionIn(models, name) ==
  CHOOSE i \in 1..Len(models) : models[i].name = name

SameInputs(a, b) ==
  /\ a.models = b.models
  /\ a.taskDescription = b.taskDescription
  /\ a.preferences = b.preferences

C16_RankingDescendingTiesByRegistry ==
  \A s \in 1..Len(modelSelections) :
    LET selection == modelSelections[s]
        models == selection.models
        ranked == RankingOf(selection)
    IN /\ \A a, b \in 1..Len(ranked) :
             a < b
             => \/ ranked[a].score > ranked[b].score
                \/ /\ ranked[a].score = ranked[b].score
                   /\ PositionIn(models, ranked[a].model)
                        < PositionIn(models, ranked[b].model)
       /\ \A i \in 1..Len(models) :
             LET score == ModelScore(models[i], selection.taskDescription,
                                     selection.preferences)
             IN \/ score < ranked[1].score
                \/ /\ score = ranked[1].score
                   /\ PositionIn(models, ranked[1].model) <= i

\* A ranking cut from a registry of five models in which two models with
\* equal scores follow each other.
C16_Witness ==
  \E s \in 1..Len(modelSelections) :
    /\ Len(modelSelections[s].models) = 5
    /\ \E a \in 1..(Len(RankingOf(modelSelections[s])) - 1) :
          RankingOf(modelSelections[s])[a].score
            = RankingOf(modelSelections[s])[a + 1].score

OnlyPreferFree == [preferFree |-> TRUE, preferPaid |-> FALSE]

NoPreference == [preferFree |-> FALSE, preferPaid |-> FALSE]

\* C17: with the registry M1 (free, coding) then M2 (paid, coding and
\* reasoning), "implement a function to add two numbers" with preferFree
\* ranks M1 first with a score of 10 and M2 second with a score of 5.
C17_ScenarioPreferFree ==
  \A s \in 1..Len(modelSelections) :
    (/\ modelSelections[s].models = ExampleModels
     /\ modelSelections[s].taskDescription = DescImplement
     /\ modelSelections[s].preferences = OnlyPreferFree)
    => RankingOf(modelSelections[s])
         = << [model |-> "M1", score |-> 10], [model |-> "M2", score |-> 5] >>

\* C18: with the same registry, "design the overall microservices
\* architecture for payments" without preferences is scored as a complex
\* task that needs reasoning, and M2 ranks first with a score of 7 or more.
C18_ScenarioComplexDesign ==
  \A s \in 1..Len(modelSelections) :
    (/\ modelSelections[s].models = ExampleModels
     /\ modelSelections[s].taskDescription = DescDesign
     /\ modelSelections[s].preferences = NoPreference)
    => /\ modelSelections[s].modelRec.recommendedModel = "M2"
       /\ modelSelections[s].modelRec.score >= 7

\* The description is long or says "complex".
InferredHigh(taskDescription) ==
  \/ Len(taskDescription) > 200
  \/ ContainsIgnoringCase(taskDescription,
                          <<"c", "o", "m", "p", "l", "e", "x">>)

\* The description is short and carries no signal of complexity, high or
\* low.
InferredMedium(taskDescription) ==
  /\ ~InferredHigh(taskDescription)
  /\ ~ContainsIgnoringCase(taskDescription, <<"q", "u", "i", "c", "k">>)
  /\ ~ContainsIgnoringCase(taskDescription, <<"f", "a", "s", "t">>)
  /\ ~ContainsIgnoringCase(taskDescription,
                           <<"s", "i", "m", "p", "l", "e">>)

\* The part of a ranked model's score that is neither capability match nor
\* preference bonus.
ComplexityPart(selection, entry) ==
  LET modelInfo ==
        selection.models[PositionIn(selection.models, entry.model)]
  IN entry.score
       - CapabilityMatch(modelInfo, toLowerCase(selection.taskDescription))
       - PreferenceBonus(modelInfo, selection.preferences)

\* C19: the complexity bonus of a model is 3 exactly when the task is of
\* high complexity and the model is paid, it is otherwise 2 or 0, 2 only
\* for a free model, and a task of medium complexity (short description,
\* no complexity signal) gives no model a complexity bonus.
C19_ComplexityBonusLevels ==
  \A s \in 1..Len(modelSelections) :
    LET selection == modelSelections[s]
        ranked == RankingOf(selection)
    IN \A a \in 1..Len(ranked) :
         LET modelInfo ==
               selection.models[PositionIn(selection.models, ranked[a].model)]
             bonus == ComplexityPart(selection, ranked[a])
         IN /\ bonus \in {0, 2, 3}
            /\ bonus = 3 <=> (InferredHigh(selection.taskDescription)
                                /\ modelInfo.tier = "paid")
            /\ bonus = 2 => modelInfo.tier = "free"
            /\ InferredMedium(selection.taskDescription) => bonus = 0

\* The part of a ranked model's score that is neither capability match nor
\* complexity match.
PreferencePart(selection, entry) ==
  LET modelInfo ==
        selection.models[PositionIn(selection.models, entry.model)]
  IN entry.score
       - CapabilityMatch(modelInfo, toLowerCase(selection.taskDescription))
       - ComplexityMatch(modelInfo, selection.taskDescription)

\* C20: no scorer call awards both policy bonuses: the 5 points for free
\* models of preferFree and the 5 points for paid models of preferPaid.
C20_OnePolicyBonusPerCall ==
  \A s \in 1..Len(modelSelections) :
    LET selection == modelSelections[s]
        ranked == RankingOf(selection)
        awarded(tier) ==
          \E a \in 1..Len(ranked) :
             /\ selection.models[PositionIn(selection.models,
                                            ranked[a].model)].tier = tier
             /\ PreferencePart(selection, ranked[a]) = 5
    IN ~(awarded("free") /\ awarded("paid"))

----------------------------------------------------------------------------
(* Sessions                                                                *)

\* The session.create requests the server has not answered yet.
CreatesInFlight == {c \in inflight : c.call = "session.create"}

\* C30: concurrent execute calls on one agent create at most one backend
\* session: while a session id is held or a session.create is in flight no
\* second session.create is sent, so the server never creates a second
\* session for the agent.
C30_AtMostOneSession ==
  /\ Cardinality(CreatesInFlight) <= 1
  /\ sessionId # NoSession => CreatesInFlight = {}
  /\ sessionsCreated <= 1

----------------------------------------------------------------------------
(* Model ids outside the registry; the agent's current model               *)

\* Call t was made with options.model set to an id the registry lacks.
UnknownOverride(t) ==
  /\ pc[t] # "idle"
  /\ options[t] # NoModel
  /\ options[t] \notin ModelNames

\* C27: execute with a model id that is not in the registry sends nothing
\* to the server (no session.create, no session.prompt), tries no fallback
\* model and fails with the not-found error.
C27_UnknownModelFailsBeforeBackend ==
  \A t \in Tasks :
     UnknownOverride(t) =>
       /\ \A c \in inflight : c.task # t
       /\ pc[t] \notin {"creating", "prompting", "fallback", "done"}
       /\ Len(invoked[t]) <= 1
       /\ pc[t] = "failed" =>
            outcome[t].error.message = MsgModelNotFound

\* C29: the agent's currentModel changes only in a switchModel call for a
\* model of the registry (so neither execute with options.model nor
\* recommendModelForTask changes it), and switchModel for any other id
\* throws the not-found error and leaves currentModel as it was.
C29_OnlySwitchModelChangesCurrentModel ==
  [][ /\ currentModel' # currentModel =>
           \E m \in ModelNames : currentModel' = m /\ switchModel(m)
      /\ \A m \in RequestedModels \ ModelNames :
           switchModel(m) =>
             /\ currentModel' = currentModel
             /\ [model |-> m, message |-> MsgModelNotFound] \in switchErrors'
    ]_vars

\* A call with a model override has ended on a model other than the current
\* one, which a switchModel call had changed; a selection was made and a
\* switchModel call for an unknown id has thrown.
C29_Witness ==
  /\ \E t \in Tasks :
        /\ pc[t] = "done"
        /\ options[t] \in ModelNames
        /\ options[t] # currentModel
  /\ currentModel # agentConfig.primaryModel
  /\ Len(modelSelections) > 0
  /\ switchErrors # {}

----------------------------------------------------------------------------
(* Empty registry                                                          *)

\* C21: a selection against a registry without models fails with the
\* dedicated no-backends-available error, which reaches the caller, and
\* the task is not delegated to any backend.
C21_EmptyRegistryNoBackendsError ==
  \A i \in 1..Len(modelSelections) :
     Len(modelSelections[i].models) = 0 =>
       /\ modelSelections[i].modelRec.kind = "thrown"
       /\ modelSelections[i].thrown = "NoBackendsAvailableError"
       /\ ~modelSelections[i].delegated

----------------------------------------------------------------------------
(* Agency routing                                                          *)

\* How many texts of a list occur in a request, whatever the case of the
\* letters.
Occurring(texts, text) ==
  Cardinality({i \in 1..Len(texts) : ContainsIgnoringCase(text, texts[i])})

\* The routing score the specification gives an agency definition: 2 for
\* every keyword, 3 for every capability, 5 for the purpose.
RoutingScore(definition, text) ==
  2 * Occurring(definition.keywords, text)
  + 3 * Occurring(definition.capabilities, text)
  + (IF /\ definition.purpose # << >>
        /\ ContainsIgnoringCase(text, definition.purpose)
       THEN 5 ELSE 0)

RoutingScores ==
  [name \in AgencyNames, q \in 1..Len(RequestTexts) |->
     RoutingScore(AgencyConfigOf(name), RequestTexts[q])] @@ << >>

KeyPosition(keys, key) == CHOOSE i \in 1..Len(keys) : keys[i] = key

\* Call r makes its determineAgency step.
Determines(r) ==
  /\ received[r].pc \in {"idle", "resumed"}
  /\ received'[r].pc \in {"determined", "failed"}

C23_NoMatchDefaultOrNoRoute ==
  [][ \A r \in Requests :
        Determines(r)
          /\ (\A i \in 1..Len(agencyConfigs) :
                 RoutingScores[agencyConfigs[i], received'[r].q] = 0)
          => IF MapHas(agencies, "BuildingAgency")
               THEN /\ received'[r].pc = "determined"
                    /\ received'[r].target = "BuildingAgency"
               ELSE /\ received'[r].pc = "failed"
                    /\ received'[r].error = "No suitable agency found"
    ]_vars

\* C24: once the load of an agency definition has failed during startup,
\* the orchestrator never counts as initialized and routes no request.
C24_FailedLoadStopsRouting ==
  discovery.failed # {}
  => /\ ~initialized
     /\ \A r \in Requests :
          received[r].pc \notin {"resumed", "determined", "routed", "done"}

\* C25: while a request is between its determineAgency and its
\* routeToAgency step, every agency that has a config entry has its project
\* manager registered, and the agency selected for the request has one.
C25_ConfigImpliesManager ==
  \A r \in Requests :
     received[r].pc \in {"resumed", "determined"} =>
       /\ \A i \in 1..Len(agencyConfigs) :
            MapHas(agencies, agencyConfigs[i])
       /\ received[r].pc = "determined" =>
            MapHas(agencies, received[r].target)

\* C26: a reader of the statistics sees only records that are completely
\* written: the last routing it is shown carries its final status, and
\* every routing it counts is counted as successful or as failed.
C26_ReadersSeeFinalRecords ==
  /\ stats.lastRouting \in {"none", "success", "error"}
  /\ stats.totalRoutings = stats.successfulRoutings + stats.failedRoutings

----------------------------------------------------------------------------
(* Project manager                                                         *)

\* C28: once a backend invocation of a project manager's step has failed
\* with a non-transient error, receivePrompt has failed with that error: it
\* neither goes on to the next step nor returns a result.
C28_FatalStepFailsReceivePrompt ==
  managed.failures # << >>
  => /\ managed.pc = "thrown"
     /\ managed.error = managed.failures[1].error

----------------------------------------------------------------------------
(* Discovery                                                               *)

\* The discoveries started since the orchestrator was constructed.
DiscoveriesStarted ==
  (IF discovery.pc # "idle" \/ initialized THEN 1 ELSE 0)
  + Cardinality({r \in Requests : overlapping[r].pc # "idle"})

\* C31: agency discovery runs at most once per initialization: a
\* receiveRequest call that arrives while initialize is in progress starts
\* no second discovery, and no agency gets a second ProjectManager
\* instance constructed for it.
C31_DiscoveryRunsOnce ==
  /\ DiscoveriesStarted <= 1
  /\ \A name \in AgencyNames : constructed[name] <= 1

----------------------------------------------------------------------------
(* Routing statistics                                                      *)

\* The receiveRequest calls whose agency call has not settled yet.
RoutedInFlight == {r \in Requests : received[r].pc = "routed"}

\* The routing records that have their final status.
Settled(records) ==
  {i \in 1..Len(records) : records[i].status \in {"success", "error"}}

\* C32: in what getStats returns, successfulRoutings + failedRoutings
\* never exceeds totalRoutings and equals it whenever no routed request is
\* in flight; a routing record is without a final status exactly while its
\* agency call is in flight, its final status never changes, and a request
\* rejected before routing has added no record.
C32_StatsAddUp ==
  /\ [](/\ stats.successfulRoutings + stats.failedRoutings
            <= stats.totalRoutings
        /\ RoutingsWith("success") + RoutingsWith("error")
            <= Len(routingHistory)
        /\ RoutedInFlight = {} =>
              RoutingsWith("success") + RoutingsWith("error")
              = Len(routingHistory)
        /\ \A i \in 1..Len(routingHistory) :
              i \notin Settled(routingHistory) <=>
                \E r \in RoutedInFlight : received[r].routing = i
        /\ \A r \in Requests :
              received[r].error \in {"Agency not found",
                                     "No suitable agency found"}
                => received[r].routing = 0
        /\ Len(routingHistory)
            = Cardinality({r \in Requests : received[r].routing # 0}))
  /\ [][/\ \A i \in Settled(routingHistory) :
              routingHistory'[i] = routingHistory[i]
        /\ stats' # stats =>
              /\ stats'.totalRoutings = Len(routingHistory)
              /\ RoutedInFlight = {} =>
                    stats'.successfulRoutings + stats'.failedRoutings
                    = stats'.totalRoutings]_vars

\* getStats has returned one routing, a successful one, with nothing in
\* flight, after a request was rejected for an agency that is not there.
C32_Witness ==
  /\ RoutedInFlight = {}
  /\ stats.totalRoutings = 1
  /\ stats.successfulRoutings = 1
  /\ \E r \in Requests : received[r].error = "Agency not found"

----------------------------------------------------------------------------
(* The order of routeTasks                                                 *)

\* The steps of routeTasks in the documented order.
StepOrder == << "CodeAgent", "executionEnvironment", "CodeValidator", "iteration" >>

\* The place of a step in the documented order.
StepRank(step) == CHOOSE i \in 1..Len(StepOrder) : StepOrder[i] = step

\* C33: routeTasks runs its steps strictly in the order CodeAgent,
\* execution environment, CodeValidator, iteration, approval; the validator
\* starts only after the CodeAgent step has completed and produced code;
\* iteration runs only if the validation reports needsAdjustment; and
\* finalStatus leaves 'pending' only once, to 'awaiting_approval' after all
\* earlier steps completed or to 'error' if a step threw.
C33_StepsInOrder ==
  /\ [](/\ \A i, j \in 1..Len(managed.steps) :
              i < j => StepRank(managed.steps[i]) < StepRank(managed.steps[j])
        /\ managed.approval # "" => managed.pc = "returned"
        /\ (\/ managed.pc = "validating"
            \/ \E i \in 1..Len(managed.steps) :
                  managed.steps[i] = "CodeValidator")
             => /\ managed.steps[1] = "CodeAgent"
                /\ managed.code
        /\ (\/ managed.pc = "iterating"
            \/ \E i \in 1..Len(managed.steps) : managed.steps[i] = "iteration")
             => managed.validation \in {"needsAdjustment", "error"}
        /\ managed.finalStatus = "awaiting_approval"
             => managed.pc \in {"approving", "returned"}
        /\ managed.finalStatus = "error"
             => managed.pc = "thrown" /\ managed.failures # << >>
        /\ managed.pc \in {"approving", "returned"}
             => managed.finalStatus = "awaiting_approval")
  /\ [][managed.finalStatus # "pending" /\ managed'.pc # "planning"
          => managed'.finalStatus = managed.finalStatus]_vars

\* routeTasks has gone through all its steps and has returned.
C33_Witness ==
  /\ managed.pc = "returned"
  /\ managed.steps = StepOrder
  /\ managed.finalStatus = "awaiting_approval"

----------------------------------------------------------------------------
(* Conversation history                                                    *)

\* The entries of the given types that call c has in the history.
EntriesOf(c, types) ==
  {i \in 1..Len(conversationHistory) :
     /\ conversationHistory[i].call = c
     /\ conversationHistory[i].type \in types}

\* C34: a receiveInput call on an active chat agent adds exactly one user
\* entry to conversationHistory and, when it settles, exactly one system
\* entry (on success) or error entry (on failure, which is thrown again);
\* a call on an inactive agent throws and adds nothing.
C34_OneEntryPerStep ==
  /\ [](\A c \in Inputs :
          /\ Cardinality(EntriesOf(c, {"user"})) <= 1
          /\ Cardinality(EntriesOf(c, {"system", "error"})) <= 1
          /\ inputs[c].pc = "idle" => EntriesOf(c, {"user", "system", "error"}) = {}
          /\ inputs[c].pc = "sent" => EntriesOf(c, {"system", "error"}) = {}
          /\ inputs[c].pc = "done" => EntriesOf(c, {"error"}) = {}
          /\ inputs[c].pc = "failed" =>
                /\ EntriesOf(c, {"system"}) = {}
                /\ inputs[c].outcome \in ChatErrors \cup {"Chat Agent is not active"}
                /\ inputs[c].outcome = "Chat Agent is not active"
                     => EntriesOf(c, {"user", "error"}) = {})
  /\ [][/\ \A c \in Inputs :
              /\ inputs[c].pc = "idle" /\ inputs'[c].pc = "sent"
                   => /\ isActive
                      /\ conversationHistory' =
                           Append(conversationHistory,
                                  [type |-> "user", call |-> c])
              /\ inputs[c].pc = "idle" /\ inputs'[c].pc = "failed"
                   => /\ ~isActive
                      /\ conversationHistory' = conversationHistory
                      /\ inputs'[c].outcome = "Chat Agent is not active"
              /\ inputs[c].pc = "sent" /\ inputs'[c].pc = "done"
                   => conversationHistory' =
                        Append(conversationHistory,
                               [type |-> "system", call |-> c])
              /\ inputs[c].pc = "sent" /\ inputs'[c].pc = "failed"
                   => /\ conversationHistory' =
                           Append(conversationHistory,
                                  [type |-> "error", call |-> c])
                      /\ inputs'[c].outcome \in ChatErrors
              /\ inputs[c].pc = "idle" => inputs'[c].pc \in {"idle", "sent", "failed"}
              /\ inputs[c].pc = "sent" => inputs'[c].pc \in {"sent", "done", "failed"}
        /\ conversationHistory' # conversationHistory
             => \/ conversationHistory' = << >>
                \/ \E c \in Inputs : inputs'[c] # inputs[c]]_vars

\* Two calls made on an active agent have settled, one with a result and
\* one with an error, and a stopped agent keeps the four entries.
C34_Witness ==
  /\ ~isActive
  /\ Len(conversationHistory) = 4
  /\ \E c, d \in Inputs :
        /\ inputs[c].pc = "done"
        /\ inputs[d].pc = "failed"
        /\ inputs[d].outcome = "Orchestrator not connected"
        /\ EntriesOf(c, {"user"}) # {} /\ EntriesOf(c, {"system"}) # {}
        /\ EntriesOf(d, {"user"}) # {} /\ EntriesOf(d, {"error"}) # {}

----------------------------------------------------------------------------
(* Voice state machine and speech queue                                    *)

\* The edges of the documented state machine.
DocumentedEdges ==
  {<< "idle", "recording" >>, << "recording", "processing" >>,
   << "processing", "speaking" >>, << "idle", "speaking" >>}
  \cup {<< from, "idle" >> : from \in VoiceStates \ {"idle"}}

\* C35: the voice module's state is always one of idle, recording,
\* processing, speaking and changes only along the edges of the documented
\* state machine: idle to recording, recording to processing, processing
\* or idle to speaking, and back to idle; no other transition occurs.
C35_OnlyDocumentedEdges ==
  /\ [](state \in VoiceStates)
  /\ [][state' # state => << state, state' >> \in DocumentedEdges]_vars

\* The texts handed to the adapter so far.
HandedTexts == {handed[i].text : i \in 1..Len(handed)}

\* The texts waiting for the speakingEnded event.
QueuedTexts == {speakingEnded[i] : i \in 1..Len(speakingEnded)}

\* C36: a speak() request made while an utterance is playing is queued and
\* stays queued until it is handed to the adapter, none is dropped; and no
\* utterance is handed to the speech adapter while another one is still
\* being spoken.
C36_QueuedNotOverlapping ==
  /\ requested = HandedTexts \cup QueuedTexts
  /\ \A i \in 1..Len(handed) : handed[i].over = NoUtterance

----------------------------------------------------------------------------
(* Import into the voice history                                           *)

\* No two of the given entries have the same id.
NoDuplicates(entries) ==
  \A i, j \in 1..Len(entries) : entries[i] = entries[j] => i = j

\* How many entries of after are not entries of before.
AddedTo(before, after) ==
  Cardinality({i \in 1..Len(after) : after[i] \notin IdsOf(before)})

\* C37: import merges without duplicates: after an import into a history
\* without duplicates the history holds no two entries with the same id,
\* the number returned is the number of entries the call has added to the
\* history, and importing the same data a second time adds nothing.
C37_ImportMergesWithoutDuplicates ==
  /\ [](imported.calls > 0 /\ NoDuplicates(imported.before)
          => /\ NoDuplicates(imported.after)
             /\ imported.returned
                = AddedTo(imported.before, imported.after))
  /\ [][/\ imported.calls > 0
        /\ imported'.calls = imported.calls + 1
        /\ imported'.entries = imported.entries
        /\ history = imported.after
        => /\ history' = history
           /\ imported'.returned = 0]_vars

----------------------------------------------------------------------------
(* MCP requests over the child process                                     *)

\* Every sendMcpRequest call is settled at most once, in one of the given
\* ways, and its id is in mcpPending exactly while it is not settled.
SettledIn(ways) ==
  \A c \in McpCalls :
     /\ Len(mcpRequests[c].settled) <= 1
     /\ mcpRequests[c].settled # << >>
          => mcpRequests[c].settled[1] \in ways
     /\ mcpRequests[c].pc = "pending" <=> /\ mcpRequests[c].settled = << >>
                                          /\ mcpRequests[c].id # 0
     /\ mcpRequests[c].pc = "pending" <=> mcpRequests[c].id \in mcpPending

\* A settled call stays as it is, whatever arrives for its id, and a call
\* is resolved with a response only when a line with its id is read.
StaysSettled ==
  \A c \in McpCalls :
     /\ mcpRequests[c].settled # << >>
          => mcpRequests'[c].settled = mcpRequests[c].settled
     /\ mcpRequests[c].settled = << >>
        /\ mcpRequests'[c].settled = << "response" >>
          => mcpRequests[c].id \in mcpStdout

\* Every call that was sent is settled in the end.
SettledInTheEnd ==
  \A c \in McpCalls :
     mcpRequests[c].pc = "pending" ~> mcpRequests[c].settled # << >>

\* C38, as stated: every request sent over the child-process path is
\* settled exactly once, resolved with the response whose id matches,
\* resolved with an error when the child exits, or rejected on timeout;
\* its entry leaves the pending map at that moment, and a response that
\* arrives for an already-settled id has no effect.
C38_SettledInThreeWays ==
  /\ [](SettledIn({"response", "exited", "timed out"}))
  /\ [][StaysSettled]_vars
  /\ SettledInTheEnd

\* C38, amended: every request sent over the child-process path is settled
\* exactly once, in one of the three ways above or rejected with the error
\* of a write to the child's stdin that threw; its entry leaves the
\* pending map at that moment, and a response that arrives for an
\* already-settled id has no effect.
C38_SettledExactlyOnce ==
  /\ [](SettledIn(Settlements))
  /\ [][StaysSettled]_vars
  /\ SettledInTheEnd

\* One request was resolved with its response and another one by the exit
\* of the child, whose late answer to it is still to be read.
C38_Witness ==
  \E c, d \in McpCalls :
     /\ mcpRequests[c].settled = << "response" >>
     /\ mcpRequests[d].settled = << "exited" >>
     /\ mcpRequests[d].id \in mcpStdout
     /\ mcpPending = {}

====
